---- MODULE Spec2Model ----
(***************************************************************************)
(* Carbon cache server: the cache registry (CacheManager) with its sled    *)
(* configuration store, and the data plane (CacheOperationsService) that   *)
(* routes put/get/delete to the store of a named cache and broadcasts      *)
(* item events.                                                            *)
(***************************************************************************)
EXTENDS Integers, Sequences, FiniteSets, TLC

VARIABLES
    mgr,            \* "up": a CacheManager exists; "down": new_with_persistence returned Err
    persistence,    \* CacheManager.persistence is Some (TRUE) or None (FALSE)
    cache_registry, \* CacheManager.cache_registry: set of [name, config, store] entries
    db,             \* SledPersistence.db: the tree, key (cache name) -> value bytes
    stores,         \* the contents of every CacheStore, store id -> key -> value
    last,           \* the call that returned last, and its response
    event_broadcaster, \* CacheOperationsService.event_broadcaster is Some (TRUE) or None
    tasks,          \* the request tasks running put / get / delete, each with its position
    events,         \* the events handed to broadcaster.send, in send order
    lastMut,        \* history: store id -> key -> the last thing that happened to the key
    intact,         \* history: no create_cache or drop_cache call has returned Err and no
                    \* record was damaged on disk
    bus,            \* the broadcast channel behind event_channel: tail position and slots
    subs,           \* the SSE clients of stream_events, each with its Receiver
    delivered,      \* what the last poll of a client's stream yielded
    now,            \* the clock (current_timestamp_ms), in ticks
    sessions,       \* MokaSessionRepository.sessions: token -> Session
    user_sessions,  \* MokaSessionRepository.user_sessions: username -> Arc of a token list
    vecs,           \* the token lists behind the Arcs
    reqs,           \* the requests using the session store, each with its position
    reply,          \* the session call or HTTP request that returned last, and its answer
    minted,         \* the number of session tokens generated
    loggedOut,      \* (history) the tokens delete_session has answered true for
    issued,         \* (history) the answer two successive requests are compared by
    auth_db,        \* the sled trees of SledUserRepository and SledRoleRepository, and
                    \* what the last UserService / RoleService call returned
    codec,          \* a protocol message on its way through encode and decode
    conn,           \* one TCP connection in process_connection, and its last response
    moka,           \* a MokaCache built with a global time-to-live: key -> value, written
    foyer,          \* a FoyerCache built with a memory capacity: its entries, oldest first
    form,           \* a POST /admin/caches request body and what create_cache answered
    admins          \* the POST /admin/caches requests under way, each with its position

vars == <<mgr, persistence, cache_registry, db, stores, last,
          event_broadcaster, tasks, events, lastMut, intact, bus, subs, delivered,
          now, sessions, user_sessions, vecs, reqs, reply, minted, loggedOut, issued,
          auth_db, codec, conn, moka, foyer, form, admins>>
regVars == <<mgr, persistence, cache_registry, db, intact>>
dataVars == <<stores, tasks, events, lastMut>>
busVars == <<bus, subs, delivered>>
authVars == <<now, sessions, user_sessions, vecs, reqs, reply, minted, loggedOut, issued,
              auth_db>>
edgeVars == <<codec, conn, moka, foyer, form, admins>>
coreVars == <<regVars, dataVars, busVars, last, event_broadcaster, authVars>>
cacheVars == <<regVars, dataVars, busVars, last, event_broadcaster, edgeVars>>

\* ---------------------------------------------------------------- bounds
\* Events sent, plus mutations still running, between two restarts.
MaxEvents == 3

\* The capacity asked of the event channel (the server asks for 1000).
Capacity == 3
\* Events sent, plus mutations still running, while an SSE client is subscribed.
MaxStream == 5

\* The clock runs from 0 to MaxTime ticks.
MaxTime == 2
\* Session tokens generated.
MaxTokens == 2
\* The session lifetime the HTTP server asks for (3600000 ms) and the time_to_live of
\* the two moka caches (3600 s), in ticks of half an hour.
SessionTtl == 2
MokaTtl == 2
\* Role ids generated (three of them for the default roles), and user ids generated
\* (one of them for the default admin).
MaxRoles == 4
MaxUsers == 2

\* ---------------------------------------------------------------- values
Names == {"a", "b"}
Keys == {"k1"}
Values == {"v1", "v2"}
\* The request tasks that run concurrently.
Tasks == {"t1", "t2"}
\* The POST /admin/caches requests that run concurrently.
Admins == {"a1", "a2", "a3"}
\* The SSE clients that can be connected at once.
Subs == {"s1", "s2"}
\* The requests that use the session store concurrently.
Reqs == {"r1", "r2"}
\* The usernames requests come with; only admin is a user of the user repository.
Usernames == {"admin", "ghost"}
Passwords == {"admin123", "wrong"}
\* generate_session_token(): the n-th token generated; 0 is a token never issued.
Tokens == 1..MaxTokens
\* Option<T>: None, or Some(x).
None == <<>>
Some(x) == <<x>>
\* Stores alive at once: one per registered name, one more per request holding an Arc.
StoreIds == 1..(Cardinality(Names) + Cardinality(Tasks))

\* CacheConfig (domain.rs): every field of the struct.
CacheConfig(name, backend, policy, mem_bytes, disk_path, default_ttl_ms) ==
    [name |-> name, backend |-> backend, policy |-> policy, mem_bytes |-> mem_bytes,
     disk_path |-> disk_path, shards |-> None, default_ttl_ms |-> default_ttl_ms,
     max_value_bytes |-> None, description |-> None, tags |-> None]

\* The configurations the admin handlers are called with.
ConfigInputs ==
    { CacheConfig(n, "SizeBounded", "TinyLfu", Some(1048576), None, None) : n \in Names }
    \cup { CacheConfig(n, "TimeBound", "Unspecified", None, None, Some(1800000)) : n \in Names }
    \cup { CacheConfig("a", "OverflowToDisk", "Lru", Some(1048576), Some("/tmp/a"), None) }

\* ------------------------------------------------- serde_json of CacheConfig
\* JSON values: a string <<"str", s>>, a number <<"num", n>>, null <<"null">>.
JStr(s) == <<"str", s>>

\* Mutant of BackendToJson: the variant names are written as they are declared.
BackendToJson_declared(b) == JStr(b)

\* #[serde(rename_all = "lowercase")] on CacheEvictionStrategy.
BackendToJson(b) ==
    CASE b = "TimeBound" -> JStr("timebound")
      [] b = "SizeBounded" -> JStr("sizebounded")
      [] b = "OverflowToDisk" -> JStr("overflowtodisk")

BackendFromJson(j) ==
    CASE j = JStr("timebound") -> "TimeBound"
      [] j = JStr("sizebounded") -> "SizeBounded"
      [] j = JStr("overflowtodisk") -> "OverflowToDisk"
      [] OTHER -> "Err"

AllFields == {"name", "backend", "policy", "mem_bytes", "disk_path", "shards",
              "default_ttl_ms", "max_value_bytes", "description", "tags"}
\* Fields that are Option<_>: a missing key or a null deserializes to None.
OptionFields == AllFields \ {"name", "backend", "policy"}

\* The bytes of a sled value: a JSON object (a function from the keys present), or
\* bytes that are no JSON object holding a CacheConfig.
CorruptBytes == [kind |-> "corrupt"]
NoRecord == [kind |-> "none"]

\* serde_json::to_vec(config)
to_vec(config) ==
    LET \* Fields carrying #[serde(skip_serializing_if = "Option::is_none")].
        SkipIfNone == {"disk_path", "default_ttl_ms", "max_value_bytes", "description", "tags"}
        NumberFields == {"mem_bytes", "shards", "default_ttl_ms", "max_value_bytes"}
        present == {f \in AllFields : ~(f \in SkipIfNone /\ config[f] = None)}
    IN [kind |-> "json", obj |-> [f \in present |->
          IF f = "backend" THEN BackendToJson(config[f])
          ELSE IF f \in OptionFields
               THEN IF config[f] = None THEN <<"null">>
                    ELSE IF f \in NumberFields THEN <<"num", config[f][1]>>
                    ELSE JStr(config[f][1])
          ELSE JStr(config[f])]]

\* serde_json::from_slice::<CacheConfig>(value): <<"Ok", config>> or <<"Err">>.
from_slice(value) ==
    IF value.kind # "json" THEN <<"Err">>
    ELSE IF ~({"name", "policy"} \subseteq DOMAIN value.obj) THEN <<"Err">>
    ELSE LET obj == value.obj
             backend == IF "backend" \in DOMAIN obj
                        THEN BackendFromJson(obj["backend"])
                        ELSE "SizeBounded"   \* #[serde(default = "default_backend")]
             opt(f) == IF f \in DOMAIN obj /\ obj[f] # <<"null">> THEN Some(obj[f][2]) ELSE None
         IN IF backend = "Err" THEN <<"Err">>
            ELSE <<"Ok", [f \in AllFields |->
                            IF f = "backend" THEN backend
                            ELSE IF f \in OptionFields THEN opt(f)
                            ELSE obj[f][2]]>>

\* ---------------------------------------------------------- SledPersistence
Faults == {"none", "write", "flush"}

\* save_config(config) with the sled call `fault` failing: <<result, db'>>.
\* db.insert failing leaves the tree alone; db.flush failing comes after the insert.
save_config(tree, config, fault) ==
    IF fault = "write" THEN <<"Err", tree>>
    ELSE LET t2 == [tree EXCEPT ![config.name] = to_vec(config)]
         IN IF fault = "flush" THEN <<"Err", t2>> ELSE <<"Ok", t2>>

\* delete_config(name): <<result, db'>>.
delete_config(tree, name, fault) ==
    IF fault = "write" THEN <<"Err", tree>>
    ELSE LET t2 == [tree EXCEPT ![name] = NoRecord]
         IN IF fault = "flush" THEN <<"Err", t2>> ELSE <<"Ok", t2>>

\* The keys of the tree in sled's iteration order (byte order).
KeyOrder == <<"a", "b">>

\* load_all(): <<"Err", _>> as soon as one record fails to deserialize, else the configs
\* in iteration order.
RECURSIVE load_from(_, _, _)
load_from(tree, i, configs) ==
    IF i > Len(KeyOrder) THEN <<"Ok", configs>>
    ELSE LET value == tree[KeyOrder[i]]
         IN IF value = NoRecord THEN load_from(tree, i + 1, configs)
            ELSE LET config == from_slice(value)
                 IN IF config[1] = "Err" THEN <<"Err", <<>> >>
                    ELSE load_from(tree, i + 1, Append(configs, config[2]))

load_all(tree) == load_from(tree, 1, <<>>)

\* ------------------------------------------------------------- CacheManager
\* HashMap::contains_key / get / insert / remove on cache_registry.
contains_key(reg, name) == \E e \in reg : e.name = name
insert(reg, name, entry) == {e \in reg : e.name # name} \cup {entry}
\* Mutant of remove: the entry of the name is the one kept.
remove_kept(reg, name) == {e \in reg : e.name = name}
remove(reg, name) == {e \in reg : e.name # name}

\* The response of an admin call: created / exists, dropped / absent, Ok, or Err.
AdminResponse(op, name, res) ==
    [op |-> op, name |-> name, key |-> "", res |-> res, value |-> ""]

CacheMetadata(config, store) == [name |-> config.name, config |-> config, store |-> store]

EmptyStore == [k \in Keys |-> None]
NoHistory == [k \in Keys |-> "none"]

\* A task that runs no request.
IdleTask == [pc |-> "idle"]

\* Store ids an Arc<dyn CacheStore> still points to: the registry's, and those of the
\* requests that have looked their cache up.
LiveStores(reg, tk) ==
    {e.store : e \in reg} \cup {tk[t].store : t \in {u \in Tasks : tk[u].pc # "idle"}}
\* Dropping the last Arc of a store frees it.
Sweep(st, reg, tk) == [s \in StoreIds |-> IF s \in LiveStores(reg, tk) THEN st[s] ELSE EmptyStore]
SweepHistory(h, reg, tk) == [s \in StoreIds |-> IF s \in LiveStores(reg, tk) THEN h[s] ELSE NoHistory]
\* The store a handler builds for a new cache: a fresh, empty one.
FreshStore(reg, tk) ==
    LET free == StoreIds \ LiveStores(reg, tk)
    IN CHOOSE s \in free : \A s2 \in free : s <= s2

\* Mutant of get_cache_store: an unknown name falls back to a registered cache.
get_cache_store_fallback(name) ==
    IF contains_key(cache_registry, name)
    THEN Some((CHOOSE e \in cache_registry : e.name = name).store)
    ELSE IF cache_registry # {} THEN Some((CHOOSE e \in cache_registry : TRUE).store)
    ELSE None

\* get_cache_store(name): Some(store), or None.
get_cache_store(name) ==
    IF contains_key(cache_registry, name)
    THEN Some((CHOOSE e \in cache_registry : e.name = name).store)
    ELSE None

\* list_caches(): one CacheInfo per value of the registry; how often a name is listed.
list_caches == {e.config : e \in cache_registry}
ListedCount(n) == Cardinality({e \in cache_registry : e.config.name = n})

\* describe_cache(name)
describe_cache(name) ==
    IF contains_key(cache_registry, name)
    THEN [ok |-> TRUE, config |-> (CHOOSE e \in cache_registry : e.name = name).config]
    ELSE [ok |-> FALSE, err |-> "CacheNotFound", name |-> name]

\* Mutant of CreateOutcome: the check for an existing name is missing.
CreateOutcome_unchecked(reg, tree, persist, config, store, fault) ==
    LET saved == IF persist THEN save_config(tree, config, fault) ELSE <<"Ok", tree>>
    IN IF saved[1] = "Err"
       THEN [res |-> "Err", reg |-> reg, db |-> saved[2]]
       ELSE [res |-> "created", db |-> saved[2],
             reg |-> insert(reg, config.name, CacheMetadata(config, store))]

\* Mutant of CreateOutcome: the entry is inserted before the config is persisted.
CreateOutcome_insert_first(reg, tree, persist, config, store, fault) ==
    IF contains_key(reg, config.name)
    THEN [res |-> "exists", reg |-> reg, db |-> tree]
    ELSE LET saved == IF persist THEN save_config(tree, config, fault) ELSE <<"Ok", tree>>
             inserted == insert(reg, config.name, CacheMetadata(config, store))
         IN [res |-> IF saved[1] = "Err" THEN "Err" ELSE "created",
             reg |-> inserted, db |-> saved[2]]

\* The body of create_cache on a registry and a sled tree: the response, and the
\* registry and the tree it leaves.
CreateOutcome(reg, tree, persist, config, store, fault) ==
    IF contains_key(reg, config.name)
    THEN [res |-> "exists", reg |-> reg, db |-> tree]
    ELSE LET saved == IF persist THEN save_config(tree, config, fault) ELSE <<"Ok", tree>>
         IN IF saved[1] = "Err"      \* persistence.save_config(&config)?
            THEN [res |-> "Err", reg |-> reg, db |-> saved[2]]
            ELSE [res |-> "created", db |-> saved[2],
                  reg |-> insert(reg, config.name, CacheMetadata(config, store))]

\* create_cache(config, store), under the registry's write lock.
create_cache(config, fault) ==
    /\ mgr = "up"
    /\ LET out == CreateOutcome(cache_registry, db, persistence, config,
                                FreshStore(cache_registry, tasks), fault)
       IN /\ cache_registry' = out.reg
          /\ db' = out.db
          /\ last' = AdminResponse("create", config.name, out.res)
          /\ intact' = (intact /\ out.res # "Err")
    /\ stores' = Sweep(stores, cache_registry', tasks)
    /\ lastMut' = SweepHistory(lastMut, cache_registry', tasks)
    /\ UNCHANGED <<mgr, persistence, event_broadcaster, edgeVars, authVars, busVars, tasks, events>>

\* POST /admin/caches up to the write lock: the handler builds a store of its own
\* (admin_ops.rs line 39) and calls create_cache, which waits for
\* cache_registry.write() (line 128).  (History: absent is whether the registry
\* lacked the name when the request arrived.)
create_cache_request(a, config) ==
    /\ mgr = "up"
    /\ admins[a].pc = "idle"
    /\ LET held == LiveStores(cache_registry, tasks)
                    \cup {admins[b].store : b \in {c \in Admins : admins[c].pc = "lock"}}
           store == CHOOSE s \in StoreIds \ held : \A s2 \in StoreIds \ held : s <= s2
       IN admins' = [admins EXCEPT
                       ![a] = [pc |-> "lock", config |-> config, store |-> store,
                               absent |-> ~contains_key(cache_registry, config.name)]]
    /\ UNCHANGED <<coreVars, codec, conn, moka, foyer, form>>

\* Mutant of create_cache_locked: the name is checked when the request arrives, not
\* under the lock.
create_cache_locked_stale(a) ==
    /\ mgr = "up"
    /\ admins[a].pc = "lock"
    /\ LET me == admins[a]
           out == IF me.absent
                  THEN CreateOutcome_unchecked(cache_registry, db, persistence, me.config,
                                               me.store, "none")
                  ELSE [res |-> "exists", reg |-> cache_registry, db |-> db]
       IN /\ cache_registry' = out.reg
          /\ db' = out.db
          /\ last' = AdminResponse("create", me.config.name, out.res)
          /\ intact' = (intact /\ out.res # "Err")
          /\ admins' = [admins EXCEPT ![a] = [pc |-> "done", config |-> me.config,
                                              store |-> me.store, absent |-> me.absent,
                                              res |-> out.res]]
    /\ stores' = Sweep(stores, cache_registry', tasks)
    /\ lastMut' = SweepHistory(lastMut, cache_registry', tasks)
    /\ UNCHANGED <<mgr, persistence, event_broadcaster, authVars, busVars, tasks, events,
                   codec, conn, moka, foyer, form>>

\* create_cache once the write lock is held, lines 128-155: there is no await past
\* the lock, so the check, the save and the insert are one step, and the request is
\* answered.  (History: the answered request keeps its config, store and response.)
create_cache_locked(a) ==
    /\ mgr = "up"
    /\ admins[a].pc = "lock"
    /\ LET me == admins[a]
           out == CreateOutcome(cache_registry, db, persistence, me.config, me.store,
                                "none")
       IN /\ cache_registry' = out.reg
          /\ db' = out.db
          /\ last' = AdminResponse("create", me.config.name, out.res)
          /\ intact' = (intact /\ out.res # "Err")
          /\ admins' = [admins EXCEPT ![a] = [pc |-> "done", config |-> me.config,
                                              store |-> me.store, absent |-> me.absent,
                                              res |-> out.res]]
    /\ stores' = Sweep(stores, cache_registry', tasks)
    /\ lastMut' = SweepHistory(lastMut, cache_registry', tasks)
    /\ UNCHANGED <<mgr, persistence, event_broadcaster, authVars, busVars, tasks, events,
                   codec, conn, moka, foyer, form>>

\* The future of a create request is dropped while it waits for the write lock, the
\* one await of create_cache; its store goes with it.
cancel_create(a) ==
    /\ admins[a].pc = "lock"
    /\ admins' = [admins EXCEPT ![a] = IdleTask]
    /\ UNCHANGED <<coreVars, codec, conn, moka, foyer, form>>

\* drop_cache(name), under the registry's write lock.
drop_cache(name, fault) ==
    /\ mgr = "up"
    /\ LET dropped == contains_key(cache_registry, name)
           deleted == IF dropped /\ persistence THEN delete_config(db, name, fault)
                      ELSE <<"Ok", db>>
       IN /\ cache_registry' = remove(cache_registry, name)
          /\ db' = deleted[2]
          /\ last' = AdminResponse("drop", name,
                                    IF deleted[1] = "Err" THEN "Err"
                                    ELSE IF dropped THEN "dropped" ELSE "absent")
          /\ intact' = (intact /\ deleted[1] # "Err")
    /\ stores' = Sweep(stores, cache_registry', tasks)
    /\ lastMut' = SweepHistory(lastMut, cache_registry', tasks)
    /\ UNCHANGED <<mgr, persistence, event_broadcaster, edgeVars, authVars, busVars, tasks, events>>

\* The registry new_with_persistence builds from the configs of load_all, in key order:
\* one factory-made store per config, inserted under config.name.
RECURSIVE Rehydrate(_, _)
Rehydrate(configs, reg) ==
    IF configs = <<>> THEN reg
    ELSE LET config == Head(configs)
             store == FreshStore(reg, [t \in Tasks |-> IdleTask])
         IN Rehydrate(Tail(configs),
                      insert(reg, config.name, CacheMetadata(config, store)))

\* A restart of the server on the same sled path: new_with_persistence(path, factory).
\* Every task, store and event of the old process is gone.
new_with_persistence ==
    /\ persistence
    /\ LET loaded == load_all(db)
       IN IF loaded[1] = "Err"
          THEN /\ mgr' = "down"
               /\ cache_registry' = {}
               /\ last' = AdminResponse("open", "", "Err")
          ELSE /\ mgr' = "up"
               /\ cache_registry' = Rehydrate(loaded[2], {})
               /\ last' = AdminResponse("open", "", "Ok")
    /\ stores' = [s \in StoreIds |-> EmptyStore]
    /\ lastMut' = [s \in StoreIds |-> NoHistory]
    /\ tasks' = [t \in Tasks |-> IdleTask]
    /\ events' = <<>>
    /\ bus' = [pos |-> 0, buf |-> <<>>]
    /\ subs' = [s \in Subs |-> [on |-> FALSE]]
    /\ delivered' = [sub |-> "", kind |-> "none", idx |-> 0, ev |-> None, n |-> 0,
                     sse |-> None]
    /\ sessions' = [t \in DOMAIN sessions |-> <<>>]
    /\ user_sessions' = [u \in DOMAIN user_sessions |-> <<>>]
    /\ vecs' = [i \in DOMAIN vecs |-> <<>>]
    /\ reqs' = [r \in DOMAIN reqs |-> [pc |-> "idle"]]
    /\ reply' = [op |-> "", status |-> "", value |-> <<>>, token |-> <<>>,
                 reused |-> <<>>, handler |-> FALSE, user |-> <<>>, verified |-> FALSE,
                 created |-> 0]
    /\ issued' = <<>>
    /\ UNCHANGED <<persistence, db, event_broadcaster, edgeVars, intact, now, minted, loggedOut,
                   auth_db>>

\* A record of the sled tree is damaged on disk (it no longer deserializes).
Corrupt(name) ==
    /\ persistence
    /\ db[name] \notin {NoRecord, CorruptBytes}
    /\ db' = [db EXCEPT ![name] = CorruptBytes]
    /\ intact' = FALSE
    /\ UNCHANGED <<mgr, persistence, cache_registry, last, event_broadcaster, edgeVars, authVars, busVars, dataVars>>

\* ------------------------------------------------------------------ CacheStore
\* MokaCache / FoyerCache behind the CacheStore trait, on the contents of one store.
\* Mutant of store_put: an entry already there is kept.
store_put_if_absent(contents, key, val) ==
    IF contents[key] = None THEN [contents EXCEPT ![key] = Some(val)] ELSE contents

\* put: cache.insert(key, val); the ttl argument is ignored by both backends.
store_put(contents, key, val) == [contents EXCEPT ![key] = Some(val)]
\* get: Ok(GetResponse{found: true, message: value}) or Err(NotFound).
store_get(contents, key) ==
    IF contents[key] # None
    THEN [ok |-> TRUE, found |-> TRUE, message |-> contents[key][1]]
    ELSE [ok |-> FALSE, err |-> "NotFound"]
\* Mutant of store_delete: the entry is looked up and left in the store.
store_delete_kept(contents, key) ==
    <<contents[key] # None, contents>>

\* delete: cache.remove(key).is_some(), and the contents left.
store_delete(contents, key) ==
    <<contents[key] # None, [contents EXCEPT ![key] = None]>>

\* The backend drops an entry on its own: its TTL lapsed (moka) or it was evicted.
Expire(s, key) ==
    /\ mgr = "up"
    /\ s \in LiveStores(cache_registry, tasks)
    /\ stores[s][key] # None
    /\ stores' = [stores EXCEPT ![s][key] = None]
    /\ lastMut' = [lastMut EXCEPT ![s][key] = "none"]
    /\ UNCHANGED <<regVars, last, event_broadcaster, edgeVars, authVars, busVars, tasks, events>>

\* ------------------------------------------------ the event channel and its clients
\* usize::next_power_of_two.
next_power_of_two(n) ==
    LET P == {2^i : i \in 0..n}
    IN CHOOSE p \in P : p >= n /\ \A q \in P : q >= n => p <= q

\* broadcast::channel(capacity): the channel keeps capacity.next_power_of_two() slots.
BufLen == next_power_of_two(Capacity)

\* The channel after AppState::new: nothing sent, and its first receiver (_event_rx)
\* dropped.  pos is the tail position; buf holds the slots of the last BufLen values
\* sent, oldest first, each with the number of receivers still to read it.  (History:
\* idx is the place of the slot's event in `events`.)
EmptyBus == [pos |-> 0, buf |-> <<>>]
\* The position of the oldest slot kept.
oldest(b) == b.pos - Len(b.buf)
\* The values the channel still holds.
retained(b) == Cardinality({i \in 1..Len(b.buf) : b.buf[i].rem > 0})

\* No client connected under this name.
NoSub == [on |-> FALSE]
\* Sender::receiver_count.
rx_cnt(ss) == Cardinality({s \in Subs : ss[s].on})

\* EventFilter::from_query_string of the query each client connects with: s1 with no
\* query, s2 with ?cache=a&type=deleted.
Filters ==
    [s \in Subs |-> IF s = "s1" THEN [cache |-> {}, event_type |-> {}]
                    ELSE [cache |-> {"a"}, event_type |-> {"deleted"}]]

\* should_send(event, filter).
should_send(event, filter) ==
    /\ filter.cache = {} \/ event.cache_name \in filter.cache
    /\ filter.event_type = {}
       \/ (CASE event.type = "Added" -> "added"
             [] event.type = "Updated" -> "updated"
             [] event.type = "Deleted" -> "deleted") \in filter.event_type

\* to_sse_event(event): the name of the SSE event.
to_sse_event(event) ==
    CASE event.type = "Added" -> "item.added"
      [] event.type = "Updated" -> "item.updated"
      [] event.type = "Deleted" -> "item.deleted"

\* Mutant of send: the value is written before the oldest slot instead of at the tail.
send_front(b, receivers, event, idx) ==
    IF receivers = 0
    THEN [res |-> "Err", bus |-> b]
    ELSE LET kept == IF Len(b.buf) = BufLen THEN Tail(b.buf) ELSE b.buf
         IN [res |-> "Ok",
             bus |-> [pos |-> b.pos + 1,
                      buf |-> <<[idx |-> idx, ev |-> Some(event), rem |-> receivers]>>
                              \o kept]]

\* Mutant of send: a full channel keeps its oldest value and grows.
send_unbounded(b, receivers, event, idx) ==
    IF receivers = 0
    THEN [res |-> "Err", bus |-> b]
    ELSE [res |-> "Ok",
          bus |-> [pos |-> b.pos + 1,
                   buf |-> Append(b.buf, [idx |-> idx, ev |-> Some(event), rem |-> receivers])]]

\* Mutant of send: with no receiver the value is kept for the next one to subscribe.
send_kept(b, receivers, event, idx) ==
    LET kept == IF Len(b.buf) = BufLen THEN Tail(b.buf) ELSE b.buf
    IN [res |-> IF receivers = 0 THEN "Err" ELSE "Ok",
        bus |-> [pos |-> b.pos + 1,
                 buf |-> Append(kept, [idx |-> idx, ev |-> Some(event),
                                       rem |-> IF receivers = 0 THEN 1 ELSE receivers])]]

\* broadcaster.send(event): Err(SendError) with no receiver, the value dropped; else
\* the value is written to the slot at the tail, over the oldest one when the channel
\* is full, and Ok(receiver count).  It never waits.
send(b, receivers, event, idx) ==
    IF receivers = 0
    THEN [res |-> "Err", bus |-> b]
    ELSE LET kept == IF Len(b.buf) = BufLen THEN Tail(b.buf) ELSE b.buf
         IN [res |-> "Ok",
             bus |-> [pos |-> b.pos + 1,
                      buf |-> Append(kept, [idx |-> idx, ev |-> Some(event),
                                            rem |-> receivers])]]

\* Nothing polled yet.
NoDelivery == [sub |-> "", kind |-> "none", idx |-> 0, ev |-> None, n |-> 0, sse |-> None]

\* stream_events, line 63: state.event_channel.subscribe(), the Receiver starting at
\* the tail.  (History: since is the number of events sent so far, got the number of
\* events this client has received, lagged whether it was ever told Lagged.)
subscribe(s, filter) ==
    /\ mgr = "up"
    /\ ~subs[s].on
    /\ subs' = [subs EXCEPT ![s] = [on |-> TRUE, next |-> bus.pos, filter |-> filter,
                                    since |-> Len(events), got |-> 0, lagged |-> FALSE]]
    /\ UNCHANGED <<regVars, dataVars, last, event_broadcaster, edgeVars, authVars, bus, delivered>>

\* Mutant of recv_lagged: a lagging receiver is moved to the tail.
recv_lagged_to_tail(b, r) ==
    [next |-> b.pos, n |-> b.pos - r.next]

\* Receiver::recv on a receiver whose next value was overwritten: Lagged(missed), and
\* the receiver moves to the oldest value kept.
recv_lagged(b, r) ==
    [next |-> oldest(b), n |-> oldest(b) - r.next]

\* One poll of the client's BroadcastStream that yields something (lines 66-91): an
\* event, passed on as an SSE event if the filter admits it, or Lagged(n), passed on as
\* an SSE "error" event.  A value read by its last receiver is dropped from its slot.
recv(s) ==
    /\ subs[s].on
    /\ subs[s].next < bus.pos
    /\ LET r == subs[s]
       IN IF r.next < oldest(bus)
          THEN LET lag == recv_lagged(bus, r)
               IN /\ subs' = [subs EXCEPT ![s].next = lag.next, ![s].lagged = TRUE,
                                           ![s].got = 0]
                  /\ delivered' = [sub |-> s, kind |-> "Lagged", idx |-> 0, ev |-> None,
                                   n |-> lag.n, sse |-> Some("error")]
                  /\ UNCHANGED bus
          ELSE LET i == r.next - oldest(bus) + 1
                   slot == bus.buf[i]
               IN /\ subs' = [subs EXCEPT ![s].next = @ + 1,
                                           ![s].got = IF r.lagged THEN 0 ELSE @ + 1]
                  /\ delivered' = [sub |-> s, kind |-> "Event", idx |-> slot.idx,
                                   ev |-> slot.ev, n |-> 0,
                                   sse |-> IF should_send(slot.ev[1], r.filter)
                                           THEN Some(to_sse_event(slot.ev[1])) ELSE None]
                  /\ bus' = [bus EXCEPT !.buf[i].rem = @ - 1,
                                        !.buf[i].ev = IF slot.rem = 1 THEN None ELSE @]
    /\ UNCHANGED <<regVars, dataVars, last, event_broadcaster, edgeVars, authVars>>

\* The client disconnects and its Receiver is dropped: it gives up every value it had
\* still to read.
unsubscribe(s) ==
    /\ subs[s].on
    /\ subs' = [subs EXCEPT ![s] = NoSub]
    /\ bus' = [bus EXCEPT !.buf =
                 [i \in 1..Len(bus.buf) |->
                    IF oldest(bus) + i - 1 >= subs[s].next /\ bus.buf[i].rem > 0
                    THEN [bus.buf[i] EXCEPT !.rem = @ - 1,
                                            !.ev = IF bus.buf[i].rem = 1 THEN None ELSE @]
                    ELSE bus.buf[i]]]
    /\ UNCHANGED <<regVars, dataVars, last, event_broadcaster, edgeVars, authVars, delivered>>

\* ------------------------------------------------------ CacheOperationsService
\* Mutations started that have not returned yet.
InFlight == Cardinality({t \in Tasks : tasks[t].pc \in {"preread", "put", "delete", "publish"}})
\* The mutations the model still admits.
Budget == IF rx_cnt(subs) = 0 THEN MaxEvents ELSE MaxStream

\* The response of a data-plane call: res is Ok (put), Found / NotFound (get),
\* Deleted / NotDeleted (delete) or CacheNotFound; value is GetResponse.message.
Response(op, cache, key, res, value) ==
    [op |-> op, name |-> cache, key |-> key, res |-> res, value |-> value]

\* The request of task t returns: its Arc of the store is dropped.  (History: t is no
\* longer ahead of any task.)
Finish(t, st, hist) ==
    /\ tasks' = [u \in Tasks |->
                   IF u = t THEN IdleTask
                   ELSE IF tasks[u].pc = "publish"
                        THEN [tasks[u] EXCEPT !.before = @ \ {t}]
                        ELSE tasks[u]]
    /\ stores' = Sweep(st, cache_registry, tasks')
    /\ lastMut' = SweepHistory(hist, cache_registry, tasks')

\* put, line 80: self.get_cache_store(cache_name).await?
put_lookup(t, cache, key, val) ==
    /\ mgr = "up"
    /\ tasks[t].pc = "idle"
    /\ Len(events) + InFlight < Budget
    /\ LET found == get_cache_store(cache)
       IN IF found = None
          THEN /\ last' = Response("put", cache, key, "CacheNotFound", "")
               /\ UNCHANGED tasks
          ELSE /\ tasks' = [tasks EXCEPT ![t] =
                              [pc |-> "preread", op |-> "put", cache |-> cache, key |-> key,
                               val |-> val, store |-> found[1]]]
               /\ UNCHANGED last
    /\ UNCHANGED <<regVars, event_broadcaster, edgeVars, authVars, busVars, stores, events, lastMut>>

\* put, line 83: existed = cache_store.get(&key).await.is_ok()
put_preread(t) ==
    /\ tasks[t].pc = "preread"
    /\ tasks' = [tasks EXCEPT ![t] =
                   [pc |-> "put", op |-> "put", cache |-> tasks[t].cache,
                    key |-> tasks[t].key, val |-> tasks[t].val, store |-> tasks[t].store,
                    existed |-> store_get(stores[tasks[t].store], tasks[t].key).ok]]
    /\ UNCHANGED <<regVars, last, event_broadcaster, edgeVars, authVars, busVars, stores, events, lastMut>>

\* Tasks whose mutation of the store of `cache` is committed and whose event is not
\* sent yet.
Unpublished(cache) == {u \in Tasks : tasks[u].pc = "publish" /\ tasks[u].cache = cache}

\* put, line 86: cache_store.put(key, value, ttl).await?  With no broadcaster the
\* request returns Ok(result) here.  (History: present is whether the key was in the
\* store just before the put, before the tasks that committed to this cache earlier
\* and have not sent their event yet.)
put_store(t) ==
    /\ tasks[t].pc = "put"
    /\ LET me == tasks[t]
           after == [stores EXCEPT ![me.store] = store_put(stores[me.store], me.key, me.val)]
           hist == [lastMut EXCEPT ![me.store][me.key] = me.val]
       IN IF event_broadcaster
             THEN /\ tasks' = [tasks EXCEPT ![t] =
                                 [pc |-> "publish", op |-> "put", cache |-> me.cache,
                                  key |-> me.key, store |-> me.store,
                                  existed |-> me.existed,
                                  present |-> stores[me.store][me.key] # None,
                                  before |-> Unpublished(me.cache)]]
                  /\ stores' = after
                  /\ lastMut' = hist
                  /\ UNCHANGED last
             ELSE /\ Finish(t, after, hist)
                  /\ last' = Response("put", me.cache, me.key, "Ok", "")
    /\ UNCHANGED <<regVars, event_broadcaster, edgeVars, authVars, busVars, events>>

\* Mutant of put_event: every put is reported as Added.
put_event_added(me) ==
    [type |-> "Added", cache_name |-> me.cache, key |-> me.key]

\* The event put builds, lines 90-107.
put_event(me) ==
    [type |-> IF me.existed THEN "Updated" ELSE "Added",
     cache_name |-> me.cache, key |-> me.key]

\* Mutant of put_publish: a put whose pre-read does not match the store at its write
\* sends both events.
put_publish_twice(t) ==
    /\ tasks[t].pc = "publish"
    /\ tasks[t].op = "put"
    /\ events' = IF tasks[t].existed = tasks[t].present
                 THEN Append(events, put_event(tasks[t]))
                 ELSE events \o <<[type |-> "Added", cache_name |-> tasks[t].cache,
                                   key |-> tasks[t].key],
                                  [type |-> "Updated", cache_name |-> tasks[t].cache,
                                   key |-> tasks[t].key]>>
    /\ bus' = send(bus, rx_cnt(subs), put_event(tasks[t]), Len(events) + 1).bus
    /\ UNCHANGED <<subs, delivered>>
    /\ Finish(t, stores, lastMut)
    /\ last' = Response("put", tasks[t].cache, tasks[t].key, "Ok", "")
    /\ UNCHANGED <<regVars, event_broadcaster, edgeVars, authVars>>

\* put, lines 89-130: broadcaster.send(event), then Ok(result).
put_publish(t) ==
    /\ tasks[t].pc = "publish"
    /\ tasks[t].op = "put"
    /\ events' = Append(events, put_event(tasks[t]))
    /\ bus' = send(bus, rx_cnt(subs), put_event(tasks[t]), Len(events) + 1).bus
    /\ UNCHANGED <<subs, delivered>>
    /\ Finish(t, stores, lastMut)
    /\ last' = Response("put", tasks[t].cache, tasks[t].key, "Ok", "")
    /\ UNCHANGED <<regVars, event_broadcaster, edgeVars, authVars>>

\* get, line 135: self.get_cache_store(cache_name).await?
get_lookup(t, cache, key) ==
    /\ mgr = "up"
    /\ tasks[t].pc = "idle"
    /\ LET found == get_cache_store(cache)
       IN IF found = None
          THEN /\ last' = Response("get", cache, key, "CacheNotFound", "")
               /\ UNCHANGED tasks
          ELSE /\ tasks' = [tasks EXCEPT ![t] =
                              [pc |-> "get", op |-> "get", cache |-> cache, key |-> key,
                               store |-> found[1]]]
               /\ UNCHANGED last
    /\ UNCHANGED <<regVars, event_broadcaster, edgeVars, authVars, busVars, stores, events, lastMut>>

\* get, line 136: cache_store.get(key).await
get_store(t) ==
    /\ tasks[t].pc = "get"
    /\ LET me == tasks[t]
           result == store_get(stores[me.store], me.key)
       IN /\ last' = IF result.ok
                     THEN Response("get", me.cache, me.key, "Found", result.message)
                     ELSE Response("get", me.cache, me.key, "NotFound", "")
          /\ Finish(t, stores, lastMut)
    /\ UNCHANGED <<regVars, event_broadcaster, edgeVars, authVars, busVars, events>>

\* delete, line 141: self.get_cache_store(cache_name).await?
delete_lookup(t, cache, key) ==
    /\ mgr = "up"
    /\ tasks[t].pc = "idle"
    /\ Len(events) + InFlight < Budget
    /\ LET found == get_cache_store(cache)
       IN IF found = None
          THEN /\ last' = Response("delete", cache, key, "CacheNotFound", "")
               /\ UNCHANGED tasks
          ELSE /\ tasks' = [tasks EXCEPT ![t] =
                              [pc |-> "delete", op |-> "delete", cache |-> cache, key |-> key,
                               store |-> found[1]]]
               /\ UNCHANGED last
    /\ UNCHANGED <<regVars, event_broadcaster, edgeVars, authVars, busVars, stores, events, lastMut>>

\* delete, lines 142-146: cache_store.delete(key).await?  The request goes on to send
\* an event only if result.deleted and a broadcaster is configured.
delete_store(t) ==
    /\ tasks[t].pc = "delete"
    /\ LET me == tasks[t]
           result == store_delete(stores[me.store], me.key)
           after == [stores EXCEPT ![me.store] = result[2]]
           hist == [lastMut EXCEPT ![me.store][me.key] = "deleted"]
       IN IF result[1] /\ event_broadcaster
             THEN /\ tasks' = [tasks EXCEPT ![t] =
                                 [pc |-> "publish", op |-> "delete", cache |-> me.cache,
                                  key |-> me.key, store |-> me.store,
                                  before |-> Unpublished(me.cache)]]
                  /\ stores' = after
                  /\ lastMut' = hist
                  /\ UNCHANGED last
             ELSE /\ Finish(t, after, hist)
                  /\ last' = Response("delete", me.cache, me.key,
                                      IF result[1] THEN "Deleted" ELSE "NotDeleted", "")
    /\ UNCHANGED <<regVars, event_broadcaster, edgeVars, authVars, busVars, events>>

\* The event delete builds, lines 147-151.
delete_event(me) ==
    [type |-> "Deleted", cache_name |-> me.cache, key |-> me.key]

\* delete, lines 153-173: broadcaster.send(event), then Ok(result).
delete_publish(t) ==
    /\ tasks[t].pc = "publish"
    /\ tasks[t].op = "delete"
    /\ events' = Append(events, delete_event(tasks[t]))
    /\ bus' = send(bus, rx_cnt(subs), delete_event(tasks[t]), Len(events) + 1).bus
    /\ UNCHANGED <<subs, delivered>>
    /\ Finish(t, stores, lastMut)
    /\ last' = Response("delete", tasks[t].cache, tasks[t].key, "Deleted", "")
    /\ UNCHANGED <<regVars, event_broadcaster, edgeVars, authVars>>

\* ---------------------------------------------------------------- sessions
\* Session::new(token, user, ttl_ms, client_ip) at time t.
Session_new(token, user, ttl_ms, client_ip, t) ==
    [token |-> token, user |-> user, created_at |-> t, expires_at |-> t + ttl_ms,
     last_accessed |-> t, client_ip |-> client_ip]
\* Session::is_expired at time t.
is_expired(session, t) == t >= session.expires_at
\* Session::update_last_accessed at time t.
update_last_accessed(session, t) == [session EXCEPT !.last_accessed = t]

\* The user repository: the default admin, with the Argon2 hash of its password.
hash_password(password) == <<"argon2", password>>
verify_password(password, hash) == hash = hash_password(password)
UserRepo ==
    [u \in {"admin"} |-> [id |-> 1, username |-> "admin",
                          password_hash |-> hash_password("admin123"), role_ids |-> <<1>>]]
\* SledUserRepository::find_by_username: the id the username index holds, then the
\* user stored under that id.
find_by_username(username) ==
    LET user_id == auth_db.users_by_username[username]
    IN IF user_id # None THEN auth_db.users[user_id[1]] ELSE None

\* Mutant of authenticate: the password is not verified.
authenticate_unverified(username, password) == find_by_username(username)

\* AuthService::authenticate(username, password): Ok(user) or Err(InvalidCredentials).
authenticate(username, password) ==
    LET user == find_by_username(username)
    IN IF user = None THEN None
       ELSE IF ~verify_password(password, user[1].password_hash) THEN None
       ELSE user

\* moka::future::Cache with time_to_live: an entry is gone MokaTtl after it was written.
cache_get(cache, key, t) ==
    IF key \in DOMAIN cache /\ cache[key] # None /\ t < cache[key][1].written + MokaTtl
    THEN Some(cache[key][1].value) ELSE None
cache_insert(cache, key, value, t) ==
    [cache EXCEPT ![key] = Some([value |-> value, written |-> t])]
cache_remove(cache, key) ==
    IF key \in DOMAIN cache THEN [cache EXCEPT ![key] = None] ELSE cache
\* The TTL sweeper at time t.
cache_sweep(cache, t) ==
    [k \in DOMAIN cache |->
       IF cache[k] # None /\ t >= cache[k][1].written + MokaTtl THEN None ELSE cache[k]]

\* The token lists alive at once: the one in the index and one per request.
VecIds == 1..(1 + Cardinality(Reqs))
IdleReq == [pc |-> "idle"]
\* The lists some Arc still points to, given the index and the requests.
LiveVecs(idx, rq) ==
    {idx[u][1].value : u \in {n \in Usernames : idx[n] # None}}
    \cup {rq[r].vec : r \in {q \in Reqs : "vec" \in DOMAIN rq[q]}}
\* A list no Arc points to is freed.
SweepVecs(v, idx, rq) == [i \in VecIds |-> IF i \in LiveVecs(idx, rq) THEN v[i] ELSE <<>>]

\* tokens.retain(|t| t != token).
retain(list, token) == SelectSeq(list, LAMBDA t : t # token)

\* Mutant of most_recent: the least recently accessed of the sessions found.
RECURSIVE least_recent(_, _)
least_recent(found, best) ==
    IF found = <<>> THEN best
    ELSE least_recent(Tail(found),
                      IF best = None \/ Head(found).last_accessed < best[1].last_accessed
                      THEN Some(Head(found)) ELSE best)

\* The most recently accessed of the sessions found, as the loops pick it: a later one
\* replaces an earlier one only if its last_accessed is greater.
RECURSIVE most_recent(_, _)
most_recent(found, best) ==
    IF found = <<>> THEN best
    ELSE most_recent(Tail(found),
                     IF best = None \/ Head(found).last_accessed > best[1].last_accessed
                     THEN Some(Head(found)) ELSE best)

\* What a call or request answers: status is Ok / NotFound for a call of the
\* repository and the HTTP status for a request; value is the call's result; token and
\* reused are the X-Session-Token and X-Session-Reused headers; handler is whether the
\* route's handler was run, user the user attached to the request.  (History:
\* verified is whether the request verified a password, created the sessions it made.)
Answer(op, status, value, token, reused, handler, user, verified, created) ==
    [op |-> op, status |-> status, value |-> value, token |-> token, reused |-> reused,
     handler |-> handler, user |-> user, verified |-> verified, created |-> created]
NoAnswer == Answer("", "", None, None, None, FALSE, None, FALSE, 0)

\* The clock advances by a tick, and the caches' sweeper drops what has lapsed.  A tick
\* is half an hour, a request is served in far less: the clock ticks between requests.
Tick ==
    /\ now < MaxTime
    /\ \A r \in Reqs : reqs[r].pc = "idle"
    /\ now' = now + 1
    /\ sessions' = cache_sweep(sessions, now')
    /\ user_sessions' = cache_sweep(user_sessions, now')
    /\ vecs' = SweepVecs(vecs, user_sessions', reqs)
    /\ reply' = NoAnswer
    /\ UNCHANGED <<cacheVars, reqs, minted, loggedOut, issued, auth_db>>

\* (History.)  issued follows the Basic-Auth requests, or the
\* get_or_create_user_session calls, served one after the other for one user with
\* nothing else under way: it holds the answer of the last one and how many there
\* have been (nth: 0 while the first is being served), and is dropped as soon as
\* anything else starts.
Reusing == {"basic", "get_or_create_user_session"}
IssuedSession(a) ==
    IF a.op = "basic"
    THEN [token |-> a.token[1], username |-> a.user[1].username]
    ELSE [token |-> a.value[1].token, username |-> a.value[1].user.username]
Issue(r, req, answer) ==
    IF answer.op # ""
    THEN IF answer.op \in Reusing /\ answer.status \in {"200", "Ok"} /\ issued # None
         THEN Some([answer |-> answer, nth |-> IF issued[1].nth = 0 THEN 1 ELSE 2])
         ELSE None
    ELSE IF reqs[r].pc = "idle"
    THEN IF req.op \in Reusing /\ \A q \in Reqs \ {r} : reqs[q].pc = "idle"
         THEN IF /\ issued # None
                 /\ issued[1].nth > 0
                 /\ req.op = issued[1].answer.op
                 /\ req.username = IssuedSession(issued[1].answer).username
              THEN issued
              ELSE Some([answer |-> answer, nth |-> 0])
         ELSE None
    ELSE issued

\* One step of request r: its new position, the answer if it returns, and the two
\* indices and the token lists as the step leaves them.
Step(r, req, answer, sess, idx, lists) ==
    /\ reqs' = [reqs EXCEPT ![r] = req]
    /\ reply' = answer
    /\ issued' = Issue(r, req, answer)
    /\ sessions' = sess
    /\ user_sessions' = idx
    /\ vecs' = SweepVecs(lists, idx, reqs')
    /\ UNCHANGED <<cacheVars, now, auth_db>>

\* The entry points that can create a session, and those of them under way that have
\* not created one.  A call that always creates starts only while a token is left to
\* generate; one that creates only for want of a session to reuse waits at the
\* creation when none is left.
Minting == {"create_session", "get_or_create_user_session", "basic", "login"}
CanMint ==
    LET PendingMints ==
            Cardinality({q \in Reqs : reqs[q].pc # "idle" /\ reqs[q].op \in Minting
                                        /\ reqs[q].created = 0})
    IN minted + PendingMints < MaxTokens

\* ------------------------------------------------------- users and roles
\* The names roles are created under, the permission sets and the role id lists the
\* services are called with, and the passwords users are given.
RoleNames == {"admin", "user", "read-only", "ops"}
PermissionSets == {{}, {"ReadCache"}, {"ReadCache", "WriteCache"}}
RoleIds == 1..MaxRoles
UserIds == 1..MaxUsers
RoleIdLists == {<<>>, <<1>>, <<MaxRoles>>}
NewPasswords == {"admin123", "s3cret"}

\* Role::new(name, permissions, is_system_role), with the uuid it is given.
Role_new(id, name, permissions, is_system_role) ==
    [id |-> id, name |-> name, permissions |-> permissions,
     is_system_role |-> is_system_role]

\* A Result of the services: Ok(value), or Err(AuthError).
AuthOk(value) == [ok |-> TRUE, value |-> value]
AuthErr(err) == [ok |-> FALSE, err |-> err]

\* SledRoleRepository::create: the role under its id, and its id under its name.
role_repo_create(repo, role) ==
    IF repo.roles_by_name[role.name] # None
    THEN [res |-> AuthErr("RoleAlreadyExists"), db |-> repo]
    ELSE [res |-> AuthOk(role),
          db |-> [repo EXCEPT !.roles[role.id] = Some(role),
                              !.roles_by_name[role.name] = Some(role.id),
                              !.role_uuids = role.id]]

\* SledUserRepository::create: the user under its id, and its id under its username.
user_repo_create(repo, user) ==
    IF repo.users_by_username[user.username] # None
    THEN [res |-> AuthErr("UserAlreadyExists"), db |-> repo]
    ELSE [res |-> AuthOk(user),
          db |-> [repo EXCEPT !.users[user.id] = Some(user),
                              !.users_by_username[user.username] = Some(user.id),
                              !.user_uuids = user.id]]

\* SledUserRepository::update: a user that is stored is written again, with its index.
user_repo_update(repo, user) ==
    IF repo.users[user.id] = None
    THEN [res |-> AuthErr("UserNotFound"), db |-> repo]
    ELSE [res |-> AuthOk(user),
          db |-> [repo EXCEPT !.users[user.id] = Some(user),
                              !.users_by_username[user.username] = Some(user.id)]]

\* create_default_roles(): admin, user and read-only, all system roles.
create_default_roles ==
    <<[name |-> "admin",
       permissions |-> {"ReadCache", "WriteCache", "DeleteCache", "AdminRead",
                        "AdminWrite", "AdminDelete", "ManageUsers", "ManageRoles"}],
      [name |-> "user",
       permissions |-> {"ReadCache", "WriteCache", "DeleteCache", "AdminRead"}],
      [name |-> "read-only", permissions |-> {"ReadCache", "AdminRead"}]>>

\* RoleService::initialize_default_roles on the trees: each default role whose name
\* is not stored yet is created, with a new uuid.
RECURSIVE default_roles_from(_, _)
default_roles_from(repo, i) ==
    IF i > Len(create_default_roles) THEN repo
    ELSE LET d == create_default_roles[i]
             role == Role_new(repo.role_uuids + 1, d.name, d.permissions, TRUE)
         IN default_roles_from(IF repo.roles_by_name[d.name] # None THEN repo
                               ELSE role_repo_create(repo, role).db,
                               i + 1)

\* The trees as main leaves them on a first start: the default roles, and the default
\* admin with its role.
AuthDb_new ==
    LET empty == [roles |-> [i \in RoleIds |-> None],
                  roles_by_name |-> [n \in RoleNames |-> None],
                  users |-> [i \in UserIds |-> None],
                  users_by_username |-> [u \in Usernames |-> None],
                  role_uuids |-> 0, user_uuids |-> 0,
                  result |-> [op |-> "new"]]
    IN user_repo_create(default_roles_from(empty, 1), UserRepo["admin"]).db

\* A call of a service returns: what it was called with, its result, and the trees.
\* (History: was is the users tree as the call found it.)
service_call(op, id, by, res, repo) ==
    /\ auth_db' = [repo EXCEPT !.result = [op |-> op, id |-> id, by |-> by, res |-> res,
                                           was |-> auth_db.users]]
    /\ UNCHANGED <<cacheVars, now, sessions, user_sessions, vecs, reqs, reply, minted,
                   loggedOut, issued>>

\* The server starts again on the same trees: RoleService::initialize_default_roles.
initialize_default_roles ==
    service_call("initialize_default_roles", None, None, AuthOk(None),
                 default_roles_from(auth_db, 1))

\* RoleService::create_role(name, permissions).
create_role(name, permissions) ==
    /\ auth_db.role_uuids < MaxRoles
    /\ IF auth_db.roles_by_name[name] # None
       THEN service_call("create_role", None, None, AuthErr("RoleAlreadyExists"), auth_db)
       ELSE LET out == role_repo_create(auth_db, Role_new(auth_db.role_uuids + 1, name,
                                                          permissions, FALSE))
            IN service_call("create_role", Some(out.res.value.id), None, out.res, out.db)

\* Mutant of update_role: the role's is_system_role flag is not looked at.
update_role_any(role_id, permissions) ==
    LET found == auth_db.roles[role_id]
    IN IF found = None
       THEN service_call("update_role", Some(role_id), None, AuthErr("RoleNotFound"),
                         auth_db)
       ELSE LET role == [found[1] EXCEPT !.permissions = permissions]
            IN service_call("update_role", Some(role_id), None, AuthOk(role),
                            [auth_db EXCEPT !.roles[role.id] = Some(role),
                                            !.roles_by_name[role.name] = Some(role.id)])

\* RoleService::update_role(role_id, permissions): get_role_by_id, the system-role
\* check, and SledRoleRepository::update.
update_role(role_id, permissions) ==
    LET found == auth_db.roles[role_id]
    IN IF found = None
       THEN service_call("update_role", Some(role_id), None, AuthErr("RoleNotFound"),
                         auth_db)
       ELSE IF found[1].is_system_role
       THEN service_call("update_role", Some(role_id), None,
                         AuthErr("CannotDeleteSystemRole"), auth_db)
       ELSE LET role == [found[1] EXCEPT !.permissions = permissions]
            IN service_call("update_role", Some(role_id), None, AuthOk(role),
                            [auth_db EXCEPT !.roles[role.id] = Some(role),
                                            !.roles_by_name[role.name] = Some(role.id)])

\* RoleService::delete_role(role_id): SledRoleRepository::delete.
delete_role(role_id) ==
    LET found == auth_db.roles[role_id]
    IN IF found = None
       THEN service_call("delete_role", Some(role_id), None, AuthErr("RoleNotFound"),
                         auth_db)
       ELSE IF found[1].is_system_role
       THEN service_call("delete_role", Some(role_id), None,
                         AuthErr("CannotDeleteSystemRole"), auth_db)
       ELSE service_call("delete_role", Some(role_id), None, AuthOk(None),
                         [auth_db EXCEPT !.roles_by_name[found[1].name] = None,
                                         !.roles[role_id] = None])

\* UserService::validate_role_ids: a list that is not empty, every id of it stored.
validate_role_ids(repo, role_ids) ==
    IF role_ids = <<>> THEN AuthErr("InvalidRoleAssignment")
    ELSE IF Len(SelectSeq(role_ids, LAMBDA id : repo.roles[id] # None)) # Len(role_ids)
    THEN AuthErr("RoleNotFound")
    ELSE AuthOk(None)

\* UserService::create_user(username, password, role_ids).
create_user(username, password, role_ids) ==
    /\ auth_db.user_uuids < MaxUsers
    /\ LET valid == validate_role_ids(auth_db, role_ids)
           user == [id |-> auth_db.user_uuids + 1, username |-> username,
                    password_hash |-> hash_password(password), role_ids |-> role_ids]
           out == user_repo_create(auth_db, user)
       IN IF auth_db.users_by_username[username] # None
          THEN service_call("create_user", None, None, AuthErr("UserAlreadyExists"),
                            auth_db)
          ELSE IF ~valid.ok
          THEN service_call("create_user", None, None, valid, auth_db)
          ELSE service_call("create_user", Some(user.id), None, out.res, out.db)

\* UserService::assign_roles(user_id, role_ids).
assign_roles(user_id, role_ids) ==
    LET valid == validate_role_ids(auth_db, role_ids)
        found == auth_db.users[user_id]
        out == user_repo_update(auth_db, [found[1] EXCEPT !.role_ids = role_ids])
    IN IF ~valid.ok
       THEN service_call("assign_roles", Some(user_id), None, valid, auth_db)
       ELSE IF found = None
       THEN service_call("assign_roles", Some(user_id), None, AuthErr("UserNotFound"),
                         auth_db)
       ELSE service_call("assign_roles", Some(user_id), None, out.res, out.db)

\* UserService::change_password(user_id, old_password, new_password).
change_password(user_id, old_password, new_password) ==
    LET found == auth_db.users[user_id]
        out == user_repo_update(auth_db, [found[1] EXCEPT
                                            !.password_hash = hash_password(new_password)])
    IN IF found = None
       THEN service_call("change_password", Some(user_id), None, AuthErr("UserNotFound"),
                         auth_db)
       ELSE IF ~verify_password(old_password, found[1].password_hash)
       THEN service_call("change_password", Some(user_id), None,
                         AuthErr("InvalidCredentials"), auth_db)
       ELSE service_call("change_password", Some(user_id), None, out.res, out.db)

\* UserService::reset_password(user_id, new_password).
reset_password(user_id, new_password) ==
    LET found == auth_db.users[user_id]
        out == user_repo_update(auth_db, [found[1] EXCEPT
                                            !.password_hash = hash_password(new_password)])
    IN IF found = None
       THEN service_call("reset_password", Some(user_id), None, AuthErr("UserNotFound"),
                         auth_db)
       ELSE service_call("reset_password", Some(user_id), None, out.res, out.db)

\* UserService::delete_user(user_id, requesting_user_id): the self-deletion check,
\* then SledUserRepository::delete.
delete_user(user_id, requesting_user_id) ==
    LET found == auth_db.users[user_id]
    IN IF user_id = requesting_user_id
       THEN service_call("delete_user", Some(user_id), Some(requesting_user_id),
                         AuthErr("CannotDeleteSelf"), auth_db)
       ELSE IF found = None
       THEN service_call("delete_user", Some(user_id), Some(requesting_user_id),
                         AuthErr("UserNotFound"), auth_db)
       ELSE service_call("delete_user", Some(user_id), Some(requesting_user_id),
                         AuthOk(None),
                         [auth_db EXCEPT !.users_by_username[found[1].username] = None,
                                         !.users[user_id] = None])

\* ------------------------------------------------ MokaSessionRepository, step by step
\* What create_session's caller answers with the session: the repository call, the
\* login handler, or auth_middleware (lines 132-149) after running the handler.
CreateAnswer(me) ==
    CASE me.op = "basic" ->
           Answer("basic", "200", None, Some(me.session.token), Some(FALSE), TRUE,
                  Some(me.session.user), me.verified, me.created)
      [] me.op = "login" ->
           Answer("login", "200", None, Some(me.session.token), None, TRUE,
                  Some(me.session.user), me.verified, me.created)
      [] OTHER ->
           Answer(me.op, "Ok", Some(me.session), None, None, FALSE, None,
                  me.verified, me.created)

\* create_session, lines 54-58: a new token and session, inserted in the primary index.
cs_insert(r) ==
    /\ reqs[r].pc = "cs1"
    /\ minted < MaxTokens
    /\ LET me == reqs[r]
           session == Session_new(minted + 1, me.user, SessionTtl, None, now)
       IN Step(r, [pc |-> "cs2", op |-> me.op, session |-> session,
                   verified |-> me.verified, created |-> me.created + 1],
               NoAnswer, cache_insert(sessions, session.token, session, now),
               user_sessions, vecs)
    /\ minted' = minted + 1
    /\ UNCHANGED loggedOut

\* create_session, lines 61-70: the user's token list, or a new one, and the push.
cs_index(r) ==
    /\ reqs[r].pc = "cs2"
    /\ LET me == reqs[r]
           found == cache_get(user_sessions, me.session.user.username, now)
           \* Arc::new(RwLock::new(Vec::new())).
           FreshVec == CHOOSE i \in VecIds \ LiveVecs(user_sessions, reqs) :
                          \A j \in VecIds \ LiveVecs(user_sessions, reqs) : i <= j
           vec == IF found = None THEN FreshVec ELSE found[1]
       IN Step(r, [pc |-> "cs3", op |-> me.op, session |-> me.session, vec |-> vec,
                   verified |-> me.verified, created |-> me.created],
               NoAnswer, sessions, user_sessions,
               [vecs EXCEPT ![vec] = Append(@, me.session.token)])
    /\ UNCHANGED <<minted, loggedOut>>

\* create_session, lines 72-74: the list is inserted in the secondary index.
cs_publish(r) ==
    /\ reqs[r].pc = "cs3"
    /\ LET me == reqs[r]
       IN Step(r, IdleReq, CreateAnswer(me), sessions,
               cache_insert(user_sessions, me.session.user.username, me.vec, now), vecs)
    /\ UNCHANGED <<minted, loggedOut>>

\* Mutant of GetAnswer: the Bearer path runs the handler whatever get_session found.
GetAnswer_admitting(me, user) ==
    IF me.op = "bearer"
    THEN Answer("bearer", "200", None, None, None, TRUE, user, me.verified, me.created)
    ELSE Answer(me.op, IF user = None THEN "NotFound" ELSE "Ok", user, None, None,
                FALSE, None, me.verified, me.created)

\* What get_session's caller answers: the repository call, or auth_middleware's
\* Bearer path (lines 44-61), which runs the handler with the user or answers 401.
GetAnswer(me, user) ==
    IF me.op = "bearer"
    THEN Answer("bearer", IF user = None THEN "401" ELSE "200", None, None, None,
                user # None, user, me.verified, me.created)
    ELSE Answer(me.op, IF user = None THEN "NotFound" ELSE "Ok", user, None, None,
                FALSE, None, me.verified, me.created)

\* Mutant of gs_read: the expiry of the session found is not checked.
gs_read_unchecked(r) ==
    /\ reqs[r].pc = "gs1"
    /\ LET me == reqs[r]
           found == cache_get(sessions, me.token, now)
       IN IF found = None
          THEN Step(r, IdleReq, GetAnswer(me, None), sessions, user_sessions, vecs)
          ELSE Step(r, [pc |-> "gs_touch", op |-> me.op, token |-> me.token,
                        session |-> found[1],
                        updated |-> update_last_accessed(found[1], now),
                        verified |-> me.verified, created |-> me.created],
                    NoAnswer, sessions, user_sessions, vecs)
    /\ UNCHANGED <<minted, loggedOut>>

\* get_session, lines 78-91: the session of the token, its expiry check, and the copy
\* with last_accessed updated.
gs_read(r) ==
    /\ reqs[r].pc = "gs1"
    /\ LET me == reqs[r]
           found == cache_get(sessions, me.token, now)
       IN IF found = None
          THEN Step(r, IdleReq, GetAnswer(me, None), sessions, user_sessions, vecs)
          ELSE IF is_expired(found[1], now)
          THEN Step(r, [pc |-> "gs_inv", op |-> me.op, token |-> me.token,
                        verified |-> me.verified, created |-> me.created],
                    NoAnswer, sessions, user_sessions, vecs)
          ELSE Step(r, [pc |-> "gs_touch", op |-> me.op, token |-> me.token,
                        session |-> found[1],
                        updated |-> update_last_accessed(found[1], now),
                        verified |-> me.verified, created |-> me.created],
                    NoAnswer, sessions, user_sessions, vecs)
    /\ UNCHANGED <<minted, loggedOut>>

\* get_session, lines 85-86: the expired session is invalidated, and NotFound.
gs_invalidate(r) ==
    /\ reqs[r].pc = "gs_inv"
    /\ Step(r, IdleReq, GetAnswer(reqs[r], None),
            cache_remove(sessions, reqs[r].token), user_sessions, vecs)
    /\ UNCHANGED <<minted, loggedOut>>

\* get_session, lines 92-94: the updated copy is inserted, and Ok(user).
gs_touch(r) ==
    /\ reqs[r].pc = "gs_touch"
    /\ LET me == reqs[r]
       IN Step(r, IdleReq, GetAnswer(me, Some(me.session.user)),
               cache_insert(sessions, me.token, me.updated, now), user_sessions, vecs)
    /\ UNCHANGED <<minted, loggedOut>>

\* What delete_session's caller answers: the repository call, or the logout handler
\* (200, or 404 for a session not found).
DeleteAnswer(me, deleted) ==
    IF me.op = "logout"
    THEN Answer("logout", IF deleted THEN "200" ELSE "404", Some(deleted), None, None, TRUE,
                None, me.verified, me.created)
    ELSE Answer(me.op, "Ok", Some(deleted), None, None, FALSE, None,
                me.verified, me.created)

\* delete_session, line 98: the session is removed from the primary index.
ds_remove(r) ==
    /\ reqs[r].pc = "ds1"
    /\ LET me == reqs[r]
           found == cache_get(sessions, me.token, now)
       IN IF found = None
          THEN Step(r, IdleReq, DeleteAnswer(me, FALSE),
                    cache_remove(sessions, me.token), user_sessions, vecs)
          ELSE Step(r, [pc |-> "ds2", op |-> me.op, token |-> me.token,
                        username |-> found[1].user.username,
                        verified |-> me.verified, created |-> me.created],
                    NoAnswer, cache_remove(sessions, me.token), user_sessions, vecs)
    /\ UNCHANGED <<minted, loggedOut>>

\* delete_session, lines 100-108: the token is pruned from its user's list.
ds_prune(r) ==
    /\ reqs[r].pc = "ds2"
    /\ LET me == reqs[r]
           found == cache_get(user_sessions, me.username, now)
       IN Step(r, IdleReq, DeleteAnswer(me, TRUE), sessions, user_sessions,
               IF found = None THEN vecs
               ELSE [vecs EXCEPT ![found[1]] = retain(@, me.token)])
    /\ loggedOut' = loggedOut \cup {reqs[r].token}
    /\ UNCHANGED minted

\* session_exists(token), lines 111-117.
session_exists(r) ==
    /\ reqs[r].pc = "se1"
    /\ LET found == cache_get(sessions, reqs[r].token, now)
       IN Step(r, IdleReq,
               Answer("session_exists", "Ok",
                      Some(found # None /\ ~is_expired(found[1], now)),
                      None, None, FALSE, None, FALSE, 0),
               sessions, user_sessions, vecs)
    /\ UNCHANGED <<minted, loggedOut>>

\* The loops over a user's tokens in get_existing_user_session, get_user_sessions and
\* get_or_create_user_session are done: found holds the unexpired sessions met, in
\* list order.  The result is the request's next position, its answer if it returns,
\* and the token lists (get_or_create_user_session rewrites the list when it met a
\* token with no valid session, lines 147-152).
ScanDone(me, vec, list, found) ==
    LET best == most_recent(found, None)
        tokens == [i \in 1..Len(found) |-> found[i].token]
        resume(pc, session) ==
            [pc |-> pc, op |-> me.op, username |-> me.username, password |-> me.password,
             user |-> me.user, session |-> session,
             verified |-> me.verified, created |-> me.created]
    IN CASE me.op = "get_existing_user_session" ->
              [req |-> IdleReq, lists |-> vecs,
               answer |-> Answer(me.op, "Ok", best, None, None, FALSE, None,
                                 me.verified, me.created)]
         [] me.op = "get_user_sessions" ->
              [req |-> IdleReq, lists |-> vecs,
               answer |-> Answer(me.op, "Ok", Some(found), None, None, FALSE, None,
                                 me.verified, me.created)]
         [] me.op = "get_or_create_user_session" ->
              [req |-> IF best # None
                       THEN resume("touch", update_last_accessed(best[1], now))
                       ELSE resume("cs1", None),
               lists |-> IF vec # None /\ Len(found) # Len(list)
                         THEN [vecs EXCEPT ![vec[1]] = tokens] ELSE vecs,
               answer |-> NoAnswer]
         [] me.op = "basic" ->
              [req |-> IF best # None
                       THEN resume("touch", update_last_accessed(best[1], now))
                       ELSE resume("auth", None),
               lists |-> vecs,
               answer |-> NoAnswer]

\* The user's token list is read from the secondary index and cloned (lines 123-128,
\* 169-174, 211-216); with no list, or an empty one, the loop is over at once.
sc_start(r) ==
    /\ reqs[r].pc = "sc1"
    /\ LET me == reqs[r]
           found == cache_get(user_sessions, me.username, now)
           list == IF found = None THEN <<>> ELSE vecs[found[1]]
           done == ScanDone(me, found, list, <<>>)
       IN IF list = <<>>
          THEN Step(r, done.req, done.answer, sessions, user_sessions, done.lists)
          ELSE Step(r, [pc |-> "sc2", op |-> me.op, username |-> me.username,
                        password |-> me.password, user |-> me.user, vec |-> found[1],
                        list |-> list, i |-> 1, found |-> <<>>,
                        verified |-> me.verified, created |-> me.created],
                    NoAnswer, sessions, user_sessions, vecs)
    /\ UNCHANGED <<minted, loggedOut>>

\* Mutant of sc_step: the expiry of the session met is not checked.
sc_step_unchecked(r) ==
    /\ reqs[r].pc = "sc2"
    /\ LET me == reqs[r]
           session == cache_get(sessions, me.list[me.i], now)
           found == IF session # None THEN Append(me.found, session[1]) ELSE me.found
           done == ScanDone(me, Some(me.vec), me.list, found)
       IN IF me.i < Len(me.list)
          THEN Step(r, [me EXCEPT !.i = @ + 1, !.found = found], NoAnswer,
                    sessions, user_sessions, vecs)
          ELSE Step(r, done.req, done.answer, sessions, user_sessions, done.lists)
    /\ UNCHANGED <<minted, loggedOut>>

\* One turn of the loop: self.sessions.get(token).await and the expiry check.
sc_step(r) ==
    /\ reqs[r].pc = "sc2"
    /\ LET me == reqs[r]
           session == cache_get(sessions, me.list[me.i], now)
           found == IF session # None /\ ~is_expired(session[1], now)
                    THEN Append(me.found, session[1]) ELSE me.found
           done == ScanDone(me, Some(me.vec), me.list, found)
       IN IF me.i < Len(me.list)
          THEN Step(r, [me EXCEPT !.i = @ + 1, !.found = found], NoAnswer,
                    sessions, user_sessions, vecs)
          ELSE Step(r, done.req, done.answer, sessions, user_sessions, done.lists)
    /\ UNCHANGED <<minted, loggedOut>>

\* The session picked for reuse is written back with last_accessed updated:
\* get_or_create_user_session, lines 155-158, and auth_middleware, lines 87-102, which
\* then runs the handler and answers with the token and X-Session-Reused: true.
touch(r) ==
    /\ reqs[r].pc = "touch"
    /\ LET me == reqs[r]
       IN Step(r, IdleReq,
               IF me.op = "basic"
               THEN Answer("basic", "200", None, Some(me.session.token), Some(TRUE), TRUE,
                           Some(me.session.user), me.verified, me.created)
               ELSE Answer(me.op, "Ok", Some(me.session), None, None, FALSE, None,
                           me.verified, me.created),
               cache_insert(sessions, me.session.token, me.session, now),
               user_sessions, vecs)
    /\ UNCHANGED <<minted, loggedOut>>

\* auth_service.authenticate(&username, &password): auth_middleware, lines 106-116,
\* and login.  On failure the request is answered 401 and its handler is not run.
auth(r) ==
    /\ reqs[r].pc = "auth"
    /\ LET me == reqs[r]
           user == authenticate(me.username, me.password)
       IN IF user = None
          THEN Step(r, IdleReq,
                    Answer(me.op, "401", None, None, None, FALSE, None, TRUE, me.created),
                    sessions, user_sessions, vecs)
          ELSE Step(r, [pc |-> "cs1", op |-> me.op, user |-> user[1],
                        verified |-> TRUE, created |-> me.created],
                    NoAnswer, sessions, user_sessions, vecs)
    /\ UNCHANGED <<minted, loggedOut>>

\* delete_user_sessions, lines 191-196: the user's token list, cloned.
du_start(r) ==
    /\ reqs[r].pc = "du1"
    /\ LET me == reqs[r]
           found == cache_get(user_sessions, me.username, now)
       IN IF found = None
          THEN Step(r, IdleReq,
                    Answer(me.op, "Ok", Some(0), None, None, FALSE, None, FALSE, 0),
                    sessions, user_sessions, vecs)
          ELSE Step(r, [pc |-> IF vecs[found[1]] = <<>> THEN "du3" ELSE "du2",
                        op |-> me.op, username |-> me.username, vec |-> found[1],
                        list |-> vecs[found[1]], i |-> 1, count |-> 0,
                        verified |-> FALSE, created |-> 0],
                    NoAnswer, sessions, user_sessions, vecs)
    /\ UNCHANGED <<minted, loggedOut>>

\* delete_user_sessions, lines 198-202: one token's session is removed.
du_step(r) ==
    /\ reqs[r].pc = "du2"
    /\ LET me == reqs[r]
           removed == cache_get(sessions, me.list[me.i], now) # None
       IN Step(r, [me EXCEPT !.pc = IF me.i < Len(me.list) THEN "du2" ELSE "du3",
                             !.i = @ + 1,
                             !.count = IF removed THEN @ + 1 ELSE @],
               NoAnswer, cache_remove(sessions, me.list[me.i]), user_sessions, vecs)
    /\ UNCHANGED <<minted, loggedOut>>

\* delete_user_sessions, lines 204-207: the user's entry is invalidated.
du_end(r) ==
    /\ reqs[r].pc = "du3"
    /\ LET me == reqs[r]
       IN Step(r, IdleReq,
               Answer(me.op, "Ok", Some(me.count), None, None, FALSE, None, FALSE, 0),
               sessions, cache_remove(user_sessions, me.username), vecs)
    /\ UNCHANGED <<minted, loggedOut>>

\* The future of request r is dropped at the await it is suspended at (the client
\* has gone): what it had written stays, the rest of it never runs.
cancel(r) ==
    /\ reqs[r].pc # "idle"
    /\ Step(r, IdleReq, NoAnswer, sessions, user_sessions, vecs)
    /\ UNCHANGED <<minted, loggedOut>>

\* A call or request starts.  The repository is called with a token (get_session,
\* delete_session) or for a user (the others); the HTTP server is asked with a Bearer
\* token, with Basic credentials, to log in, or to log out.
start_token(r, op, token) ==
    /\ reqs[r].pc = "idle"
    /\ Step(r, [pc |-> CASE op \in {"get_session", "bearer"} -> "gs1"
                         [] op = "session_exists" -> "se1"
                         [] OTHER -> "ds1",
                op |-> op, token |-> token, verified |-> FALSE, created |-> 0],
            NoAnswer, sessions, user_sessions, vecs)
    /\ UNCHANGED <<minted, loggedOut>>

start_user(r, op, username, password) ==
    /\ reqs[r].pc = "idle"
    /\ op \in Minting \ Reusing => CanMint
    /\ op \in {"create_session", "get_or_create_user_session"} => username \in DOMAIN UserRepo
    /\ Step(r, [pc |-> CASE op = "create_session" -> "cs1"
                         [] op = "login" -> "auth"
                         [] op = "delete_user_sessions" -> "du1"
                         [] OTHER -> "sc1",
                op |-> op, username |-> username, password |-> password,
                user |-> IF username \in DOMAIN UserRepo THEN UserRepo[username] ELSE None,
                verified |-> FALSE, created |-> 0],
            NoAnswer, sessions, user_sessions, vecs)
    /\ UNCHANGED <<minted, loggedOut>>

\* ------------------------------------------------------- the binary protocol
\* server-tcp/src/protocol: the payload of one frame.  A byte is a number below 256,
\* a Bytes value a sequence of bytes, and a String the sequence of its UTF-8 bytes.

\* The longest cache name, key, value or message drawn.
MaxLen == 4
\* The number of values of a u32: 2^32 in the build, scaled down so that a field too
\* long for its length prefix is among the inputs.
U32Range == 4

CMD_PING == 0
CMD_PUT == 1
CMD_GET == 2
CMD_DELETE == 3
RESP_PONG == 0
RESP_OK == 1
RESP_VALUE == 2
RESP_NOT_FOUND == 3
RESP_ERROR == 4

\* The byte strings of at most n bytes over an alphabet.
ByteSeqs(alphabet, n) == UNION {[1..k -> alphabet] : k \in 0..n}

Request_Ping == [kind |-> "Ping"]
Request_Put(cache_name, key, value) ==
    [kind |-> "Put", cache_name |-> cache_name, key |-> key, value |-> value]
Request_Get(cache_name, key) == [kind |-> "Get", cache_name |-> cache_name, key |-> key]
Request_Delete(cache_name, key) ==
    [kind |-> "Delete", cache_name |-> cache_name, key |-> key]
Response_Pong == [kind |-> "Pong"]
Response_Ok == [kind |-> "Ok"]
Response_Value(value) == [kind |-> "Value", value |-> value]
Response_NotFound == [kind |-> "NotFound"]
Response_Error(msg) == [kind |-> "Error", msg |-> msg]

\* Result<_, String>.
DecOk(value) == [ok |-> TRUE, value |-> value]
DecErr(err) == [ok |-> FALSE, err |-> err]

\* `len() as u32`: the low 32 bits of the length.
as_u32(n) == n % U32Range
\* BufMut::put_u32: four bytes, big-endian.
put_u32(n) == <<(n \div 16777216) % 256, (n \div 65536) % 256, (n \div 256) % 256, n % 256>>
\* Buf::get_u32 on a buffer of at least four bytes.
get_u32(buf) == buf[1] * 16777216 + buf[2] * 65536 + buf[3] * 256 + buf[4]
\* Buf::advance: the buffer after its first n bytes.
advance(buf, n) == SubSeq(buf, n + 1, Len(buf))
\* Buf::copy_to_bytes: the first n bytes.
copy_to_bytes(buf, n) == SubSeq(buf, 1, n)
\* String::from_utf8, on the bytes drawn here: a byte below 0x80 is ASCII, and 0xFF
\* occurs in no UTF-8 sequence.
from_utf8(bytes) ==
    IF \A i \in 1..Len(bytes) : bytes[i] < 128 THEN DecOk(bytes) ELSE DecErr("Invalid cache_name UTF-8")
\* String::from_utf8_lossy: each invalid byte becomes U+FFFD (EF BF BD).
RECURSIVE from_utf8_lossy(_)
from_utf8_lossy(bytes) ==
    IF bytes = <<>> THEN <<>>
    ELSE (IF Head(bytes) < 128 THEN <<Head(bytes)>> ELSE <<239, 191, 189>>)
         \o from_utf8_lossy(Tail(bytes))

\* Mutant of Request_encode: PUT writes the value length before the key length.
Request_encode_swapped(req) ==
    CASE req.kind = "Ping" -> <<CMD_PING>>
      [] req.kind = "Put" ->
            <<CMD_PUT>> \o put_u32(as_u32(Len(req.cache_name))) \o req.cache_name
            \o put_u32(as_u32(Len(req.value))) \o put_u32(as_u32(Len(req.key)))
            \o req.key \o req.value
      [] req.kind = "Get" ->
            <<CMD_GET>> \o put_u32(as_u32(Len(req.cache_name))) \o req.cache_name
            \o put_u32(as_u32(Len(req.key))) \o req.key
      [] req.kind = "Delete" ->
            <<CMD_DELETE>> \o put_u32(as_u32(Len(req.cache_name))) \o req.cache_name
            \o put_u32(as_u32(Len(req.key))) \o req.key

\* Request::encode.
Request_encode(req) ==
    CASE req.kind = "Ping" -> <<CMD_PING>>
      [] req.kind = "Put" ->
            <<CMD_PUT>> \o put_u32(as_u32(Len(req.cache_name))) \o req.cache_name
            \o put_u32(as_u32(Len(req.key))) \o put_u32(as_u32(Len(req.value)))
            \o req.key \o req.value
      [] req.kind = "Get" ->
            <<CMD_GET>> \o put_u32(as_u32(Len(req.cache_name))) \o req.cache_name
            \o put_u32(as_u32(Len(req.key))) \o req.key
      [] req.kind = "Delete" ->
            <<CMD_DELETE>> \o put_u32(as_u32(Len(req.cache_name))) \o req.cache_name
            \o put_u32(as_u32(Len(req.key))) \o req.key

\* Request::decode, from the cache name on: the name of command cmd, then what is
\* left of the payload, or the error of the name.
decode_cache_name(cmd, buf) ==
    IF Len(buf) < 4
    THEN DecErr("Invalid " \o cmd \o ": missing cache_name length")
    ELSE LET cache_name_len == get_u32(buf)
             rest == advance(buf, 4)
         IN IF Len(rest) < cache_name_len
            THEN DecErr("Invalid " \o cmd \o ": cache_name too short")
            ELSE LET cache_name == from_utf8(copy_to_bytes(rest, cache_name_len))
                 IN IF ~cache_name.ok
                    THEN cache_name
                    ELSE DecOk([cache_name |-> cache_name.value,
                                buf |-> advance(rest, cache_name_len)])

\* Request::decode, the key of GET and DELETE.
decode_key(cmd, buf) ==
    IF Len(buf) < 4
    THEN DecErr("Invalid " \o cmd \o ": missing key length")
    ELSE LET key_len == get_u32(buf)
             rest == advance(buf, 4)
         IN IF Len(rest) < key_len
            THEN DecErr("Invalid " \o cmd \o ": expected more bytes")
            ELSE DecOk(copy_to_bytes(rest, key_len))

\* Request::decode, the key and value of PUT.
decode_key_value(buf) ==
    IF Len(buf) < 8
    THEN DecErr("Invalid PUT: missing key/value length fields")
    ELSE LET key_len == get_u32(buf)
             value_len == get_u32(advance(buf, 4))
             rest == advance(buf, 8)
         IN IF Len(rest) < key_len + value_len
            THEN DecErr("Invalid PUT: expected more bytes")
            ELSE DecOk([key |-> copy_to_bytes(rest, key_len),
                        value |-> copy_to_bytes(advance(rest, key_len), value_len)])

\* Request::decode.  Bytes after the last field are ignored.
Request_decode(buf) ==
    IF buf = <<>>
    THEN DecErr("Empty buffer")
    ELSE LET cmd == Head(buf)
             payload == Tail(buf)
         IN CASE cmd = CMD_PING -> DecOk(Request_Ping)
              [] cmd = CMD_PUT ->
                    LET name == decode_cache_name("PUT", payload)
                    IN IF ~name.ok THEN name
                       ELSE LET kv == decode_key_value(name.value.buf)
                            IN IF ~kv.ok THEN kv
                               ELSE DecOk(Request_Put(name.value.cache_name,
                                                      kv.value.key, kv.value.value))
              [] cmd = CMD_GET ->
                    LET name == decode_cache_name("GET", payload)
                    IN IF ~name.ok THEN name
                       ELSE LET key == decode_key("GET", name.value.buf)
                            IN IF ~key.ok THEN key
                               ELSE DecOk(Request_Get(name.value.cache_name, key.value))
              [] cmd = CMD_DELETE ->
                    LET name == decode_cache_name("DELETE", payload)
                    IN IF ~name.ok THEN name
                       ELSE LET key == decode_key("DELETE", name.value.buf)
                            IN IF ~key.ok THEN key
                               ELSE DecOk(Request_Delete(name.value.cache_name, key.value))
              [] OTHER -> DecErr("Unknown command")

\* Response::encode.
Response_encode(resp) ==
    CASE resp.kind = "Pong" -> <<RESP_PONG>>
      [] resp.kind = "Ok" -> <<RESP_OK>>
      [] resp.kind = "Value" ->
            <<RESP_VALUE>> \o put_u32(as_u32(Len(resp.value))) \o resp.value
      [] resp.kind = "NotFound" -> <<RESP_NOT_FOUND>>
      [] resp.kind = "Error" ->
            <<RESP_ERROR>> \o put_u32(as_u32(Len(resp.msg))) \o resp.msg

\* Response::decode, a length-prefixed field of response what.
decode_field(what, buf) ==
    IF Len(buf) < 4
    THEN DecErr("Invalid " \o what \o ": missing length")
    ELSE LET len == get_u32(buf)
             rest == advance(buf, 4)
         IN IF Len(rest) < len
            THEN DecErr("Invalid " \o what \o ": expected more bytes")
            ELSE DecOk(copy_to_bytes(rest, len))

\* Response::decode.
Response_decode(buf) ==
    IF buf = <<>>
    THEN DecErr("Empty buffer")
    ELSE LET resp_type == Head(buf)
             payload == Tail(buf)
         IN CASE resp_type = RESP_PONG -> DecOk(Response_Pong)
              [] resp_type = RESP_OK -> DecOk(Response_Ok)
              [] resp_type = RESP_VALUE ->
                    LET value == decode_field("VALUE", payload)
                    IN IF ~value.ok THEN value ELSE DecOk(Response_Value(value.value))
              [] resp_type = RESP_NOT_FOUND -> DecOk(Response_NotFound)
              [] resp_type = RESP_ERROR ->
                    LET msg == decode_field("ERROR", payload)
                    IN IF ~msg.ok THEN msg
                       ELSE DecOk(Response_Error(from_utf8_lossy(msg.value)))
              [] OTHER -> DecErr("Unknown response type")

\* The messages put through the codec: cache names and messages over "a", keys over
\* two bytes, values over a third.
CacheNameBytes == ByteSeqs({97}, MaxLen)
KeyBytes == ByteSeqs({1, 2}, MaxLen)
ValueBytes == ByteSeqs({3}, MaxLen)
Requests ==
    {Request_Ping}
    \cup {Request_Put(c, k, v) : c \in CacheNameBytes, k \in KeyBytes, v \in ValueBytes}
    \cup {Request_Get(c, k) : c \in CacheNameBytes, k \in KeyBytes}
    \cup {Request_Delete(c, k) : c \in CacheNameBytes, k \in KeyBytes}
Responses ==
    {Response_Pong, Response_Ok, Response_NotFound}
    \cup {Response_Value(v) : v \in KeyBytes}
    \cup {Response_Error(m) : m \in CacheNameBytes}

\* No message in the codec.
NoCodec == [stage |-> "idle"]

\* x.encode(): the message goes on the wire.
encode ==
    /\ codec.stage = "new"
    /\ codec' = [codec EXCEPT !.stage = "wire",
                              !.wire = IF codec.side = "request"
                                       THEN Request_encode(codec.x)
                                       ELSE Response_encode(codec.x)]
    /\ UNCHANGED <<coreVars, conn, moka, foyer, form, admins>>

\* decode(bytes): the peer reads it back.
decode ==
    /\ codec.stage = "wire"
    /\ codec' = [codec EXCEPT !.stage = "back",
                              !.back = IF codec.side = "request"
                                       THEN Request_decode(codec.wire)
                                       ELSE Response_decode(codec.wire)]
    /\ UNCHANGED <<coreVars, conn, moka, foyer, form, admins>>

\* ------------------------------------------------------- the TCP server
\* server-tcp/src/server.rs: process_connection, one task per accepted socket, on the
\* CacheOperationsService of server-unified (built with no event broadcaster).

\* Frames read from one connection.
MaxFrames == 3
\* max_frame_length: 8 MiB in the build, scaled to just above the longest request drawn.
MaxFrameLength == 24

\* str::as_bytes of the names, keys and values of the caches.
as_bytes(s) ==
    CASE s = "a" -> <<97>>
      [] s = "b" -> <<98>>
      [] s = "k1" -> <<107, 49>>
      [] s = "k2" -> <<107, 50>>
      [] s = "k3" -> <<107, 51>>
      [] s = "v1" -> <<118, 49>>
      [] s = "v2" -> <<118, 50>>
\* The name, key or value of set S these bytes spell, or "" when it is none of them.
from_bytes(S, bytes) ==
    IF \E s \in S : as_bytes(s) = bytes THEN CHOOSE s \in S : as_bytes(s) = bytes ELSE ""

\* The well-formed payloads a client sends.
RequestFrames ==
    {Request_encode(Request_Ping)}
    \cup {Request_encode(Request_Put(as_bytes(c), as_bytes(k), as_bytes(v))) :
             c \in Names, k \in Keys, v \in Values}
    \cup {Request_encode(Request_Get(as_bytes(c), as_bytes(k))) : c \in Names, k \in Keys}
    \cup {Request_encode(Request_Delete(as_bytes(c), as_bytes(k))) : c \in Names, k \in Keys}
\* The payloads Request::decode refuses: empty; an opcode that is no command; a
\* missing length field; lengths declared beyond the bytes present; a cache name that
\* is not UTF-8.
MalformedFrames ==
    {<<>>, <<9>>, <<CMD_GET>>, <<CMD_PUT, 0, 0>>,
     <<CMD_GET, 0, 0, 0, 5, 97>>,
     <<CMD_DELETE, 0, 0, 0, 1, 97, 0, 0, 0, 2, 107>>,
     <<CMD_PUT, 0, 0, 0, 1, 97, 0, 0, 0, 2, 0, 0, 0, 2, 107, 49, 118>>,
     <<CMD_GET, 0, 0, 0, 1, 255, 0, 0, 0, 2, 107, 49>>,
     <<CMD_PUT, 0, 0, 0, 1, 255, 0, 0, 0, 2, 0, 0, 0, 2, 107, 49, 118, 49>>}
\* A frame whose length prefix is over max_frame_length.
OversizeFrames == {[i \in 1..(MaxFrameLength + 1) |-> 0]}
Frames == RequestFrames \cup MalformedFrames \cup OversizeFrames

\* cache_ops.put / get / delete as process_connection calls them: the response of the
\* data plane, and the stores and their history as the call leaves them.
cache_ops_call(req) ==
    LET cache == from_bytes(Names, req.cache_name)
        key == from_bytes(Keys, req.key)
        found == get_cache_store(cache)
    IN CASE req.kind = "Put" ->
              IF found = None
              THEN [res |-> Response("put", cache, key, "CacheNotFound", ""),
                    stores |-> stores, lastMut |-> lastMut]
              ELSE LET s == found[1]
                       val == from_bytes(Values, req.value)
                   IN [res |-> Response("put", cache, key, "Ok", ""),
                       stores |-> [stores EXCEPT ![s] = store_put(stores[s], key, val)],
                       lastMut |-> [lastMut EXCEPT ![s][key] = val]]
         [] req.kind = "Get" ->
              IF found = None
              THEN [res |-> Response("get", cache, key, "CacheNotFound", ""),
                    stores |-> stores, lastMut |-> lastMut]
              ELSE LET got == store_get(stores[found[1]], key)
                   IN [res |-> IF got.ok
                               THEN Response("get", cache, key, "Found", got.message)
                               ELSE Response("get", cache, key, "NotFound", ""),
                       stores |-> stores, lastMut |-> lastMut]
         [] req.kind = "Delete" ->
              IF found = None
              THEN [res |-> Response("delete", cache, key, "CacheNotFound", ""),
                    stores |-> stores, lastMut |-> lastMut]
              ELSE LET s == found[1]
                       result == store_delete(stores[s], key)
                   IN [res |-> Response("delete", cache, key,
                                        IF result[1] THEN "Deleted" ELSE "NotDeleted", ""),
                       stores |-> [stores EXCEPT ![s] = result[2]],
                       lastMut |-> [lastMut EXCEPT ![s][key] = "deleted"]]

\* Lines 48-91: the protocol response to the outcome of the call.  Missing stands for
\* Ok(GetResponse) with found false, which no backend returns: a miss is
\* Err(Error::NotFound), res NotFound here.  An error message is kept as its fixed part.
respond(res) ==
    CASE res.res = "CacheNotFound" -> Response_Error("Cache not found")
      [] res.op = "put" -> Response_Ok
      [] res.op = "get" /\ res.res = "Found" -> Response_Value(as_bytes(res.value))
      [] res.op = "get" /\ res.res = "Missing" -> Response_NotFound
      [] res.op = "get" -> Response_Error("Get failed: not found")
      [] res.op = "delete" -> Response_Ok

\* No connection.
NoConn ==
    [open |-> FALSE, frames |-> 0, sent |-> 0, frame |-> "none", reply |-> None,
     executed |-> "none", authenticated |-> FALSE, after_malformed |-> FALSE]
\* (History of a connection: frame is the kind of the last frame read,
\* reply the response written for it, executed the data-plane call made for it,
\* authenticated whether credentials were checked before that call, after_malformed
\* whether a payload that does not decode was read earlier.)

\* Mutant of decode_failed: the connection is dropped after the error is sent.
decode_failed_closing(c, e) ==
    [c EXCEPT !.open = FALSE, !.frames = @ + 1, !.sent = @ + 1, !.frame = "malformed",
              !.reply = Some(Response_Error(e)), !.executed = "none",
              !.after_malformed = TRUE]

\* Lines 35-43: Request::decode failed; Response::Error{msg: e} is sent and the loop
\* continues.
decode_failed(c, e) ==
    [c EXCEPT !.frames = @ + 1, !.sent = @ + 1, !.frame = "malformed",
              !.reply = Some(Response_Error(e)), !.executed = "none",
              !.after_malformed = TRUE]

\* process_connection, one turn of the loop of lines 30-95 on the next frame of the
\* socket.  A frame the codec refuses ends the function at `frame_result?`: the socket
\* is dropped with nothing written.
process_frame(frame) ==
    /\ mgr = "up"
    /\ conn.open
    /\ conn.frames < MaxFrames
    /\ LET \* LengthDelimitedCodec::decode_head: the payload, or Err(frame size too big).
           frame_result == IF Len(frame) > MaxFrameLength
                           THEN DecErr("frame size too big") ELSE DecOk(frame)
       IN IF ~frame_result.ok
          THEN /\ conn' = [conn EXCEPT !.open = FALSE, !.frames = @ + 1,
                                       !.frame = "oversize", !.reply = None,
                                       !.executed = "none"]
               /\ UNCHANGED <<stores, lastMut, last>>
          ELSE LET request == Request_decode(frame_result.value)
               IN IF ~request.ok
                  THEN /\ conn' = decode_failed(conn, request.err)
                       /\ UNCHANGED <<stores, lastMut, last>>
                  ELSE IF request.value.kind = "Ping"
                  THEN /\ conn' = [conn EXCEPT !.frames = @ + 1, !.sent = @ + 1,
                                               !.frame = "request",
                                               !.reply = Some(Response_Pong),
                                               !.executed = "none"]
                       /\ UNCHANGED <<stores, lastMut, last>>
                  ELSE LET out == cache_ops_call(request.value)
                       IN /\ conn' = [conn EXCEPT !.frames = @ + 1, !.sent = @ + 1,
                                                  !.frame = "request",
                                                  !.reply = Some(respond(out.res)),
                                                  !.executed = request.value.kind]
                          /\ stores' = out.stores
                          /\ lastMut' = out.lastMut
                          /\ last' = out.res
    /\ UNCHANGED <<regVars, tasks, events, busVars, event_broadcaster, authVars,
                   codec, moka, foyer, form, admins>>

\* process_connection await by await, with the frames of a peer that does not wait for
\* a response before it writes again.  (History: socket holds the frames written and
\* not yet read, got the frames read in their order, done the position in got of the
\* last frame whose cache operation returned, answered for each response written the
\* position in got of the frame it answers, that response and done at that moment;
\* request and response are the locals of the loop body.)

\* The frames the peer pipelines: those that touch key k1 of cache a, PING, and those
\* the server refuses.
PipeFrames ==
    {f \in RequestFrames :
        LET req == Request_decode(f).value
        IN req.kind = "Ping" \/ (req.cache_name = as_bytes("a") /\ req.key = as_bytes("k1"))}
    \cup MalformedFrames \cup OversizeFrames

\* The peer writes one more frame to the socket.
client_write(frame) ==
    /\ conn.open
    /\ Len(conn.got) + Len(conn.socket) < MaxFrames
    /\ conn' = [conn EXCEPT !.socket = Append(@, frame)]
    /\ UNCHANGED <<coreVars, codec, moka, foyer, form, admins>>

\* What framed.next() and Request::decode make of the frame at the head of the socket,
\* lines 30-47: a frame the codec refuses ends the function, a payload that does not
\* decode and a PING have their response at once, any other request is to be run.
read_frame(c) ==
    LET frame == Head(c.socket)
        read == [c EXCEPT !.socket = Tail(@), !.got = Append(@, frame),
                          !.frames = @ + 1, !.reply = None, !.executed = "none"]
        request == Request_decode(frame)
    IN IF Len(frame) > MaxFrameLength
       THEN [read EXCEPT !.open = FALSE, !.frame = "oversize"]
       ELSE IF ~request.ok
       THEN [read EXCEPT !.pc = "send", !.frame = "malformed", !.after_malformed = TRUE,
                         !.response = Some(Response_Error(request.err))]
       ELSE IF request.value.kind = "Ping"
       THEN [read EXCEPT !.pc = "send", !.frame = "request",
                         !.response = Some(Response_Pong)]
       ELSE [read EXCEPT !.pc = "call", !.frame = "request",
                         !.request = Some(request.value)]

\* Mutant of framed_next: the next frame is read while a response is still to be
\* written, and that response is lost.
framed_next_early ==
    /\ mgr = "up"
    /\ conn.open
    /\ conn.pc \in {"next", "send"}
    /\ conn.socket # <<>>
    /\ conn' = read_frame([conn EXCEPT !.pc = "next", !.response = None])
    /\ UNCHANGED <<coreVars, codec, moka, foyer, form, admins>>

\* Lines 30-47: `while let Some(frame_result) = framed.next().await`, at the top of the
\* loop only.
framed_next ==
    /\ mgr = "up"
    /\ conn.open
    /\ conn.pc = "next"
    /\ conn.socket # <<>>
    /\ conn' = read_frame(conn)
    /\ UNCHANGED <<coreVars, codec, moka, foyer, form, admins>>

\* Lines 49-90: cache_ops.put / get / delete awaited, and its result matched into the
\* response.
cache_ops_await ==
    /\ mgr = "up"
    /\ conn.pc = "call"
    /\ LET out == cache_ops_call(conn.request[1])
       IN /\ conn' = [conn EXCEPT !.pc = "send", !.executed = conn.request[1].kind,
                                  !.request = None, !.done = Len(conn.got),
                                  !.response = Some(respond(out.res))]
          /\ stores' = out.stores
          /\ lastMut' = out.lastMut
          /\ last' = out.res
    /\ UNCHANGED <<regVars, tasks, events, busVars, event_broadcaster, authVars,
                   codec, moka, foyer, form, admins>>

\* Line 93: framed.send(response.encode()).await, then the next turn of the loop.
framed_send ==
    /\ conn.pc = "send"
    /\ conn' = [conn EXCEPT !.pc = "next", !.sent = @ + 1, !.reply = conn.response,
                            !.response = None,
                            !.answered = Append(@, [of |-> Len(conn.got),
                                                    response |-> conn.response[1],
                                                    done |-> conn.done])]
    /\ UNCHANGED <<coreVars, codec, moka, foyer, form, admins>>

\* ------------------------------------------------------- the backends
\* storage-engine/src/moka_cache.rs: a MokaCache built by MokaCache::new with a
\* default TTL, with or without a cap on its entries.

\* The keys put into it.
StoreKeys == {"k1", "k2"}

\* No MokaCache.
NoMoka ==
    [ttl |-> None, max_capacity |-> None, entries |-> [k \in StoreKeys |-> None],
     hist |-> [k \in StoreKeys |-> None], reply |-> None]

\* MokaCache::new(name, max_entries, default_ttl): builder.max_capacity(max) and
\* builder.time_to_live(ttl) when given.  (History: hist is, for each key, when it was
\* last inserted and whether it was deleted since; reply is the call that returned
\* last.)
MokaCache_new(max_entries, default_ttl) ==
    [NoMoka EXCEPT !.ttl = default_ttl, !.max_capacity = max_entries]

\* Mutant of moka_expired: an entry outlives its time to live by one tick.
moka_expired_late(m, key, t) ==
    /\ m.ttl # None
    /\ m.entries[key] # None
    /\ m.entries[key][1].written + m.ttl[1] < t

\* time_to_live: the entry was written at least the TTL ago.
moka_expired(m, key, t) ==
    /\ m.ttl # None
    /\ m.entries[key] # None
    /\ m.entries[key][1].written + m.ttl[1] <= t

\* cache.get(key): the value of an entry that is there and has not expired.
moka_live(m, key, t) == m.entries[key] # None /\ ~moka_expired(m, key, t)

\* MokaCache::put, lines 76-87: cache.insert(key, val); the ttl argument is ignored.
moka_put(key, val) ==
    /\ moka.ttl # None
    /\ moka' = [moka EXCEPT !.entries[key] = Some([value |-> val, written |-> now]),
                            !.hist[key] = Some([at |-> now, deleted |-> FALSE]),
                            !.reply = Some([op |-> "put", key |-> key, res |-> "Ok",
                                            value |-> ""])]
    /\ UNCHANGED <<coreVars, codec, conn, foyer, form, admins>>

\* MokaCache::get, lines 89-94.  An expired entry is reaped on access.
moka_get(key) ==
    /\ moka.ttl # None
    /\ moka' = [moka EXCEPT
                  !.entries[key] = IF moka_live(moka, key, now) THEN @ ELSE None,
                  !.reply = Some(IF moka_live(moka, key, now)
                                 THEN [op |-> "get", key |-> key, res |-> "Found",
                                       value |-> moka.entries[key][1].value]
                                 ELSE [op |-> "get", key |-> key, res |-> "NotFound",
                                       value |-> ""])]
    /\ UNCHANGED <<coreVars, codec, conn, foyer, form, admins>>

\* MokaCache::delete, lines 96-99: cache.remove(key).is_some().
moka_delete(key) ==
    /\ moka.ttl # None
    /\ moka' = [moka EXCEPT
                  !.entries[key] = None,
                  !.hist[key] = IF @ = None THEN None ELSE Some([@[1] EXCEPT !.deleted = TRUE]),
                  !.reply = Some([op |-> "delete", key |-> key,
                                  res |-> IF moka_live(moka, key, now)
                                          THEN "Deleted" ELSE "NotDeleted",
                                  value |-> ""])]
    /\ UNCHANGED <<coreVars, codec, conn, foyer, form, admins>>

\* max_capacity: with more entries than the cap, moka's housekeeping evicts one, the
\* newcomer or an older entry as its admission policy decides.
moka_evict(key) ==
    /\ moka.max_capacity # None
    /\ Cardinality({k \in StoreKeys : moka.entries[k] # None}) > moka.max_capacity[1]
    /\ moka.entries[key] # None
    /\ moka' = [moka EXCEPT !.entries[key] = None]
    /\ UNCHANGED <<coreVars, codec, conn, foyer, form, admins>>

\* storage-engine/src/lib.rs: a FoyerCache built by FoyerCache::new(name, mem_bytes).

\* The largest mem_bytes a FoyerCache is built with.
MaxBudget == 4
Budgets == 1..MaxBudget
\* The keys put into it.
FoyerKeys == {"k1", "k2", "k3"}

\* No FoyerCache.
NoFoyer == [capacity |-> 0, entries |-> [k \in FoyerKeys |-> None], reply |-> None]

\* FoyerCache::new, lines 24-30: CacheBuilder::new(mem_bytes) with no weighter, so
\* every entry weighs 1 and capacity is a number of entries.
FoyerCache_new(mem_bytes) == [NoFoyer EXCEPT !.capacity = mem_bytes]

\* The weight foyer charges for an entry: that of the default weighter.
weighter(key, val) == 1
\* The bytes of the keys and values held.
RECURSIVE bytes_held(_, _)
bytes_held(entries, keys) ==
    IF keys = {} THEN 0
    ELSE LET k == CHOOSE x \in keys : TRUE
         IN (IF entries[k] = None THEN 0
             ELSE Len(as_bytes(k)) + Len(as_bytes(entries[k][1])))
            + bytes_held(entries, keys \ {k})

\* cache.insert(key, val): the entry replaces the key's, and entries are evicted
\* (which ones is the eviction policy's choice) until usage is within capacity.  The
\* contents the insert can leave.
foyer_insert(f, key, val) ==
    LET full == [f.entries EXCEPT ![key] = Some(val)]
        others == {k \in FoyerKeys \ {key} : full[k] # None}
        room == f.capacity - weighter(key, val)
    IN {[k \in FoyerKeys |-> IF k \in others \ kept THEN None ELSE full[k]] :
          kept \in {K \in SUBSET others :
                      Cardinality(K) = IF Cardinality(others) <= room
                                       THEN Cardinality(others) ELSE room}}

\* FoyerCache::put, lines 51-64: cache.insert(key, val), then Ok(PutResponse).
foyer_put(key, val) ==
    /\ foyer.capacity > 0
    /\ \E after \in foyer_insert(foyer, key, val) :
          foyer' = [foyer EXCEPT !.entries = after,
                                 !.reply = Some([op |-> "put", key |-> key, res |-> "Ok",
                                                 value |-> val])]
    /\ UNCHANGED <<coreVars, codec, conn, moka, form, admins>>

\* FoyerCache::get, lines 66-74.
foyer_get(key) ==
    /\ foyer.capacity > 0
    /\ foyer' = [foyer EXCEPT
                   !.reply = Some(IF foyer.entries[key] # None
                                  THEN [op |-> "get", key |-> key, res |-> "Found",
                                        value |-> foyer.entries[key][1]]
                                  ELSE [op |-> "get", key |-> key, res |-> "NotFound",
                                        value |-> ""])]
    /\ UNCHANGED <<coreVars, codec, conn, moka, form, admins>>

\* FoyerCache::delete, lines 76-79.
foyer_delete(key) ==
    /\ foyer.capacity > 0
    /\ foyer' = [foyer EXCEPT
                   !.entries[key] = None,
                   !.reply = Some([op |-> "delete", key |-> key,
                                   res |-> IF foyer.entries[key] # None
                                           THEN "Deleted" ELSE "NotDeleted",
                                   value |-> ""])]
    /\ UNCHANGED <<coreVars, codec, conn, moka, form, admins>>

\* ------------------------------------------------------- create-cache validation
\* server-http/src/validation.rs and handlers/admin_ops.rs: POST /admin/caches.

MIN_MEM_BYTES == 1048576
\* 1 TiB in the build, scaled to 2 MiB.
MAX_MEM_BYTES == 2097152
DEFAULT_TTL_MS == 1800000
MAX_SHARDS == 256
DEFAULT_SHARDS == 16

\* A name is the sequence of its chars.  char::is_alphanumeric holds of the Unicode
\* letters and digits, among them chars outside ASCII.
Chars == {"a", "b", "Z", "7", "_", "-", " ", "/", "U+00E9"}
is_alphanumeric(c) == c \in {"a", "b", "Z", "7", "U+00E9"}
\* The names of the requests: the empty name, the names of the caches, and names
\* with a char that is no ASCII letter, digit, hyphen or underscore.
NameInputs ==
    {<<>>} \cup {<<c>> : c \in Chars \ {"Z", "7", "_", "-"}}
    \cup {<<c, d>> : c \in {"a", "Z", "_"}, d \in {" ", "/", "U+00E9"}}
    \cup {<<c, d>> : c \in {" ", "/", "U+00E9"}, d \in {"7", "-"}}
\* The String of a name.
RECURSIVE to_string(_)
to_string(chars) == IF chars = <<>> THEN "" ELSE Head(chars) \o to_string(Tail(chars))

\* str::to_lowercase, on the backends and policies drawn.
to_lowercase(s) ==
    CASE s = "TTL" -> "ttl"
      [] s = "Size" -> "size"
      [] s = "LRU" -> "lru"
      [] OTHER -> s

\* CreateCacheRequest, the fields validation reads.
CreateCacheRequest(name, eviction, policy, mem_bytes, disk_path, shards, default_ttl_ms) ==
    [name |-> name, eviction |-> eviction, policy |-> policy, mem_bytes |-> mem_bytes,
     disk_path |-> disk_path, shards |-> shards, default_ttl_ms |-> default_ttl_ms]

\* The request bodies posted.
RequestInputs ==
    {CreateCacheRequest(n, e, p, m, d, s, t) :
        n \in NameInputs,
        e \in {"ttl", "TTL", "size", "storage", "timebound"},
        p \in {"", "LRU", "fifo"},
        m \in {None, Some(MIN_MEM_BYTES - 1), Some(MIN_MEM_BYTES), Some(MAX_MEM_BYTES),
               Some(MAX_MEM_BYTES + 1)},
        d \in {None, Some(""), Some("/tmp/a")},
        s \in {None, Some(255)},
        t \in {None, Some(60000)}}

ValidationError(kind, field) == [ok |-> FALSE, kind |-> kind, field |-> field]
Valid(value) == [ok |-> TRUE, value |-> value]

\* parse_backend, lines 96-103.
parse_backend(eviction) ==
    CASE to_lowercase(eviction) = "ttl" -> Valid("TimeBound")
      [] to_lowercase(eviction) = "size" -> Valid("SizeBounded")
      [] to_lowercase(eviction) = "storage" -> Valid("OverflowToDisk")
      [] OTHER -> ValidationError("InvalidBackendType", "")

\* parse_policy, lines 105-116.
parse_policy(policy) ==
    IF policy = "" THEN Valid("TinyLfu")
    ELSE CASE to_lowercase(policy) = "lru" -> Valid("Lru")
           [] to_lowercase(policy) = "sieve" -> Valid("Sieve")
           [] to_lowercase(policy) = "tinylfu" -> Valid("TinyLfu")
           [] OTHER -> ValidationError("InvalidPolicy", "")

\* The range check of mem_bytes.
out_of_range(mem_bytes) == mem_bytes < MIN_MEM_BYTES \/ mem_bytes > MAX_MEM_BYTES

\* validate_for_backend, lines 118-184.
validate_for_backend(req, backend) ==
    CASE backend = "TimeBound" ->
            IF req.mem_bytes # None /\ out_of_range(req.mem_bytes[1])
            THEN ValidationError("OutOfRange", "mem_bytes")
            ELSE Valid(TRUE)
      [] backend = "SizeBounded" ->
            IF req.mem_bytes = None
            THEN ValidationError("MissingRequiredField", "mem_bytes")
            ELSE IF out_of_range(req.mem_bytes[1])
            THEN ValidationError("OutOfRange", "mem_bytes")
            ELSE Valid(TRUE)
      [] backend = "OverflowToDisk" ->
            IF req.mem_bytes = None
            THEN ValidationError("MissingRequiredField", "mem_bytes")
            ELSE IF req.disk_path = None \/ req.disk_path = Some("")
            THEN ValidationError("MissingRequiredField", "disk_path")
            ELSE IF out_of_range(req.mem_bytes[1])
            THEN ValidationError("OutOfRange", "mem_bytes")
            ELSE Valid(TRUE)

\* validate_common_fields, lines 186-218.  shards is a u8, which `shards as u32`
\* never takes over MAX_SHARDS.
validate_common_fields(req) ==
    IF req.name = <<>>
    THEN ValidationError("InvalidCacheName", "")
    ELSE IF ~\A i \in 1..Len(req.name) :
               is_alphanumeric(req.name[i]) \/ req.name[i] = "-" \/ req.name[i] = "_"
    THEN ValidationError("InvalidCacheName", "")
    ELSE IF req.shards # None /\ req.shards[1] > MAX_SHARDS
    THEN ValidationError("OutOfRange", "shards")
    ELSE Valid(TRUE)

\* Mutant of build_config: the TTL is left as requested for every backend.
build_config_as_requested(req, backend, policy) ==
    [CacheConfig(to_string(req.name), backend, policy, req.mem_bytes, req.disk_path,
                 req.default_ttl_ms)
       EXCEPT !.shards = IF req.shards # None THEN req.shards ELSE Some(DEFAULT_SHARDS)]

\* build_config, lines 220-252.
build_config(req, backend, policy) ==
    LET default_ttl_ms ==
            IF backend = "TimeBound"
            THEN Some(IF req.default_ttl_ms # None THEN req.default_ttl_ms[1]
                      ELSE DEFAULT_TTL_MS)
            ELSE req.default_ttl_ms
    IN [CacheConfig(to_string(req.name), backend, policy, req.mem_bytes, req.disk_path,
                    default_ttl_ms)
          EXCEPT !.shards = IF req.shards # None THEN req.shards ELSE Some(DEFAULT_SHARDS)]

\* CacheConfigFactory::from_request, lines 79-94.
from_request(req) ==
    LET backend == parse_backend(req.eviction)
        policy == parse_policy(req.policy)
    IN IF ~backend.ok THEN backend
       ELSE IF ~policy.ok THEN policy
       ELSE IF ~validate_for_backend(req, backend.value).ok
       THEN validate_for_backend(req, backend.value)
       ELSE IF ~validate_common_fields(req).ok THEN validate_common_fields(req)
       ELSE Valid(build_config(req, backend.value, policy.value))

\* No request posted.
NoForm == [stage |-> "idle"]

\* POST /admin/caches, handlers/admin_ops.rs lines 16-56: a request the factory
\* refuses is answered 400 with field: None; the others reach
\* cache_manager.create_cache with a store of their own.  (History: config is what
\* from_request returned.)
create_cache_handler ==
    /\ mgr = "up"
    /\ form.stage = "new"
    /\ LET req == form.req
           built == from_request(req)
       IN IF ~built.ok
          THEN /\ form' = [stage |-> "done", req |-> req, config |-> None, status |-> "400",
                           body |-> [error |-> built.kind, field |-> None]]
               /\ UNCHANGED <<cache_registry, db, last, intact, stores, lastMut>>
          ELSE LET out == CreateOutcome(cache_registry, db, persistence, built.value,
                                        FreshStore(cache_registry, tasks), "none")
               IN /\ form' = [stage |-> "done", req |-> req, config |-> Some(built.value),
                              status |-> IF out.res = "Err" THEN "500" ELSE "200",
                              body |-> [created |-> out.res = "created"]]
                  /\ cache_registry' = out.reg
                  /\ db' = out.db
                  /\ last' = AdminResponse("create", built.value.name, out.res)
                  /\ intact' = (intact /\ out.res # "Err")
                  /\ stores' = Sweep(stores, cache_registry', tasks)
                  /\ lastMut' = SweepHistory(lastMut, cache_registry', tasks)
    /\ UNCHANGED <<mgr, persistence, event_broadcaster, tasks, events, busVars, authVars,
                   codec, conn, moka, foyer, admins>>

InitCore ==
    /\ mgr = "up"
    /\ persistence \in BOOLEAN
    /\ event_broadcaster \in BOOLEAN
    /\ cache_registry = {}
    /\ db = [n \in Names |-> NoRecord]
    /\ stores = [s \in StoreIds |-> EmptyStore]
    /\ last = AdminResponse("new", "", "Ok")
    /\ tasks = [t \in Tasks |-> IdleTask]
    /\ events = <<>>
    /\ lastMut = [s \in StoreIds |-> NoHistory]
    /\ intact = TRUE
    /\ bus = EmptyBus
    /\ subs = [s \in Subs |-> NoSub]
    /\ delivered = NoDelivery
    /\ now = 0
    /\ sessions = [t \in Tokens |-> None]
    /\ user_sessions = [u \in Usernames |-> None]
    /\ vecs = [i \in VecIds |-> <<>>]
    /\ reqs = [r \in Reqs |-> IdleReq]
    /\ reply = NoAnswer
    /\ minted = 0
    /\ loggedOut = {}
    /\ issued = None
    /\ auth_db = AuthDb_new
    /\ admins = [a \in Admins |-> IdleTask]

\* Nothing at the edge: no message in the codec, no connection, no backend on its own,
\* no request posted.
InitEdge ==
    /\ codec = NoCodec
    /\ conn = NoConn
    /\ moka = NoMoka
    /\ foyer = NoFoyer
    /\ form = NoForm

Init == InitCore /\ InitEdge

\* The registry: admin calls, restarts and damage to the records on disk.
NextRegistry ==
    \/ \E c \in ConfigInputs, f \in Faults : create_cache(c, f)
    \/ \E n \in Names, f \in Faults : drop_cache(n, f)
    \/ new_with_persistence
    \/ \E n \in Names : Corrupt(n)

\* The data plane: the steps of the request tasks, and the backends' own expiry.
NextRequests ==
    \/ \E t \in Tasks, c \in Names, k \in Keys, v \in Values : put_lookup(t, c, k, v)
    \/ \E t \in Tasks : put_preread(t)
    \/ \E t \in Tasks : put_store(t)
    \/ \E t \in Tasks : put_publish(t)
    \/ \E t \in Tasks, c \in Names, k \in Keys : get_lookup(t, c, k)
    \/ \E t \in Tasks : get_store(t)
    \/ \E t \in Tasks, c \in Names, k \in Keys : delete_lookup(t, c, k)
    \/ \E t \in Tasks : delete_store(t)
    \/ \E t \in Tasks : delete_publish(t)
    \/ \E s \in StoreIds, k \in Keys : Expire(s, k)

\* The data plane over an in-memory registry (CacheManager::new()) that caches are
\* added to while requests run.  The requests never read a cache's config.
DataConfigs == {c \in ConfigInputs : c.backend = "SizeBounded"}
NextData ==
    \/ \E c \in DataConfigs : create_cache(c, "none")
    \/ NextRequests

\* The SSE clients of /events.
NextClients ==
    \/ \E s \in Subs : subscribe(s, Filters[s])
    \/ \E s \in Subs : recv(s)
    \/ \E s \in Subs : unsubscribe(s)

\* The event stream: one task putting to and deleting from one cache while SSE
\* clients come, read and go.
NextBus ==
    \/ \E k \in Keys : put_lookup("t1", "a", k, "v1")
    \/ put_preread("t1")
    \/ put_store("t1")
    \/ put_publish("t1")
    \/ \E k \in Keys : delete_lookup("t1", "a", k)
    \/ delete_store("t1")
    \/ delete_publish("t1")
    \/ NextClients

\* What each request task asks for: the first anything, the second what races with it.
Ops ==
    [r \in Reqs |->
       IF r = "r1"
       THEN {"create_session", "get_session", "delete_session", "session_exists",
             "get_or_create_user_session", "get_user_sessions",
             "get_existing_user_session", "delete_user_sessions", "bearer", "basic", "login", "logout"}
       ELSE {"get_session", "delete_session"}]

\* The session store: the steps of the calls and requests under way, new ones, and
\* the clock.
NextSessions ==
    \/ \E r \in Reqs, op \in {"get_session", "delete_session", "session_exists", "bearer", "logout"},
          token \in Tokens \cup {0} :
          op \in Ops[r] /\ (r = "r1" \/ token # 0) /\ start_token(r, op, token)
    \/ \E r \in Reqs, op \in {"create_session", "get_or_create_user_session",
                               "get_user_sessions", "get_existing_user_session",
                               "delete_user_sessions"},
          u \in Usernames : op \in Ops[r] /\ start_user(r, op, u, "")
    \/ \E r \in Reqs, op \in {"basic", "login"}, u \in Usernames, pw \in Passwords :
          op \in Ops[r] /\ start_user(r, op, u, pw)
    \/ \E r \in Reqs : session_exists(r)
    \/ \E r \in Reqs : cs_insert(r)
    \/ \E r \in Reqs : cs_index(r)
    \/ \E r \in Reqs : cs_publish(r)
    \/ \E r \in Reqs : gs_read(r)
    \/ \E r \in Reqs : gs_invalidate(r)
    \/ \E r \in Reqs : gs_touch(r)
    \/ \E r \in Reqs : ds_remove(r)
    \/ \E r \in Reqs : ds_prune(r)
    \/ \E r \in Reqs : sc_start(r)
    \/ \E r \in Reqs : sc_step(r)
    \/ \E r \in Reqs : touch(r)
    \/ \E r \in Reqs : auth(r)
    \/ \E r \in Reqs : du_start(r)
    \/ \E r \in Reqs : du_step(r)
    \/ \E r \in Reqs : du_end(r)
    \/ Tick

Next == NextRegistry \/ NextRequests \/ NextClients \/ NextSessions

InitData == Init /\ ~persistence

Spec == Init /\ [][Next]_vars
SpecRegistry == Init /\ [][NextRegistry]_vars
SpecData == InitData /\ [][NextData]_vars
\* The server of AppState::new (in-memory registry, events broadcast) once cache "a"
\* has been created.
InitBus ==
    /\ mgr = "up"
    /\ persistence = FALSE
    /\ event_broadcaster = TRUE
    /\ cache_registry =
          {CacheMetadata(CacheConfig("a", "SizeBounded", "TinyLfu", Some(1048576), None, None),
                         1)}
    /\ db = [n \in Names |-> NoRecord]
    /\ stores = [s \in StoreIds |-> EmptyStore]
    /\ last = AdminResponse("create", "a", "created")
    /\ tasks = [t \in Tasks |-> IdleTask]
    /\ events = <<>>
    /\ lastMut = [s \in StoreIds |-> NoHistory]
    /\ intact = TRUE
    /\ bus = EmptyBus
    /\ subs = [s \in Subs |-> NoSub]
    /\ delivered = NoDelivery
    /\ now = 0
    /\ sessions = [t \in Tokens |-> None]
    /\ user_sessions = [u \in Usernames |-> None]
    /\ vecs = [i \in VecIds |-> <<>>]
    /\ reqs = [r \in Reqs |-> IdleReq]
    /\ reply = NoAnswer
    /\ minted = 0
    /\ loggedOut = {}
    /\ issued = None
    /\ auth_db = AuthDb_new
    /\ admins = [a \in Admins |-> IdleTask]
    /\ InitEdge
SpecBus == InitBus /\ [][NextBus]_vars

\* The server of main.rs, just started: in-memory caches, the event bus attached, no
\* session yet.
InitSessions == Init /\ ~persistence /\ event_broadcaster
SpecSessions == InitSessions /\ [][NextSessions]_vars

\* The session store called by one caller, each call returning before the next starts.
NextSerial ==
    \/ \E op \in {"get_session", "delete_session"}, token \in Tokens :
          start_token("r1", op, token)
    \/ \E op \in {"create_session", "get_or_create_user_session", "get_user_sessions",
                   "get_existing_user_session", "delete_user_sessions"},
          u \in Usernames : start_user("r1", op, u, "")
    \/ cs_insert("r1")
    \/ cs_index("r1")
    \/ cs_publish("r1")
    \/ gs_read("r1")
    \/ gs_invalidate("r1")
    \/ gs_touch("r1")
    \/ ds_remove("r1")
    \/ ds_prune("r1")
    \/ sc_start("r1")
    \/ sc_step("r1")
    \/ touch("r1")
    \/ du_start("r1")
    \/ du_step("r1")
    \/ du_end("r1")
    \/ Tick
SpecSerial == InitSessions /\ [][NextSerial]_vars

\* The registry under create requests that arrive together: each waits for the write
\* lock with a store of its own.
InitRace == Init /\ ~event_broadcaster
NextRace ==
    \/ \E a \in Admins, c \in ConfigInputs : create_cache_request(a, c)
    \/ \E a \in Admins : create_cache_locked(a)
SpecRace == InitRace /\ [][NextRace]_vars

\* A persistent server whose clients may go away at any await: one caller of the
\* session store and one POST /admin/caches request at a time, each dropped or run to
\* its end; the clock stands still.
InitCancel == Init /\ persistence /\ event_broadcaster
NextCancel ==
    \/ \E op \in {"create_session", "get_or_create_user_session", "get_user_sessions"} :
          start_user("r1", op, "admin", "")
    \/ cs_insert("r1")
    \/ cs_index("r1")
    \/ cs_publish("r1")
    \/ sc_start("r1")
    \/ sc_step("r1")
    \/ touch("r1")
    \/ cancel("r1")
    \/ \E c \in ConfigInputs : create_cache_request("a1", c)
    \/ create_cache_locked("a1")
    \/ cancel_create("a1")
SpecCancel == InitCancel /\ [][NextCancel]_vars

\* Sessions of admin created and looked up by two callers at once; the clock stands
\* still, so no session expires.
NextCreate ==
    \/ \E r \in Reqs, op \in {"create_session", "get_or_create_user_session",
                               "get_user_sessions"} : start_user(r, op, "admin", "")
    \/ \E r \in Reqs : cs_insert(r)
    \/ \E r \in Reqs : cs_index(r)
    \/ \E r \in Reqs : cs_publish(r)
    \/ \E r \in Reqs : sc_start(r)
    \/ \E r \in Reqs : sc_step(r)
    \/ \E r \in Reqs : touch(r)
SpecCreate == InitSessions /\ [][NextCreate]_vars

\* The data plane of the started server while cache "a" is created and dropped.
NextDrop ==
    \/ \E c \in {d \in DataConfigs : d.name = "a"} : create_cache(c, "none")
    \/ drop_cache("a", "none")
    \/ \E t \in Tasks, k \in Keys, v \in Values : put_lookup(t, "a", k, v)
    \/ \E t \in Tasks : put_preread(t)
    \/ \E t \in Tasks : put_store(t)
    \/ \E t \in Tasks : put_publish(t)
    \/ \E t \in Tasks, k \in Keys : get_lookup(t, "a", k)
    \/ \E t \in Tasks : get_store(t)
    \/ \E t \in Tasks, k \in Keys : delete_lookup(t, "a", k)
    \/ \E t \in Tasks : delete_store(t)
    \/ \E t \in Tasks : delete_publish(t)
SpecDrop == InitSessions /\ [][NextDrop]_vars

\* Basic-Auth requests for admin, served one at a time, on a server where, between
\* requests, admin's password is changed or reset, a second user is created, and
\* admin is deleted by that user.
NextCreds ==
    \/ \E password \in Passwords \cup NewPasswords :
          start_user("r1", "basic", "admin", password)
    \/ sc_start("r1")
    \/ sc_step("r1")
    \/ touch("r1")
    \/ auth("r1")
    \/ cs_insert("r1")
    \/ cs_index("r1")
    \/ cs_publish("r1")
    \/ reqs["r1"].pc = "idle" /\ \E old_password \in NewPasswords, new_password \in NewPasswords :
          change_password(1, old_password, new_password)
    \/ reqs["r1"].pc = "idle" /\ \E new_password \in NewPasswords : reset_password(1, new_password)
    \/ reqs["r1"].pc = "idle" /\ create_user("ghost", "s3cret", <<1>>)
    \/ reqs["r1"].pc = "idle" /\ delete_user(1, 2)
SpecCreds == InitSessions /\ [][NextCreds]_vars

\* One message through the codec: every request and response drawn, encoded and read
\* back.
InitCodec ==
    /\ InitCore /\ ~persistence /\ ~event_broadcaster
    /\ codec \in {[stage |-> "new", side |-> "request", x |-> r, wire |-> <<>>,
                   back |-> None] : r \in Requests}
                 \cup {[stage |-> "new", side |-> "response", x |-> r, wire |-> <<>>,
                        back |-> None] : r \in Responses}
    /\ conn = NoConn /\ moka = NoMoka /\ foyer = NoFoyer /\ form = NoForm
NextCodec == encode \/ decode
SpecCodec == InitCodec /\ [][NextCodec]_vars

\* The unified server in memory, one TCP connection accepted: caches are created,
\* the connection's frames are served, entries lapse.
InitTcp ==
    /\ InitCore /\ ~persistence /\ ~event_broadcaster
    /\ conn = [NoConn EXCEPT !.open = TRUE]
    /\ codec = NoCodec /\ moka = NoMoka /\ foyer = NoFoyer /\ form = NoForm
NextTcp ==
    \/ \E c \in DataConfigs : create_cache(c, "none")
    \/ \E frame \in Frames : process_frame(frame)
    \/ \E s \in StoreIds, k \in Keys : Expire(s, k)
SpecTcp == InitTcp /\ [][NextTcp]_vars

\* One connection whose peer pipelines its frames, on the service of server-unified.
InitPipe ==
    /\ InitCore /\ ~persistence /\ ~event_broadcaster
    /\ conn = [open |-> TRUE, frames |-> 0, sent |-> 0, frame |-> "none", reply |-> None,
               executed |-> "none", authenticated |-> FALSE, after_malformed |-> FALSE,
               socket |-> <<>>, got |-> <<>>, pc |-> "next", request |-> None,
               response |-> None, done |-> 0, answered |-> <<>>]
    /\ codec = NoCodec /\ moka = NoMoka /\ foyer = NoFoyer /\ form = NoForm
NextPipe ==
    \/ \E c \in DataConfigs : c.name = "a" /\ create_cache(c, "none")
    \/ \E frame \in PipeFrames : client_write(frame)
    \/ framed_next
    \/ cache_ops_await
    \/ framed_send
    \/ \E s \in StoreIds : Expire(s, "k1")
SpecPipe == InitPipe /\ [][NextPipe]_vars

\* A MokaCache with a default TTL, capped at one entry or not, under its callers and
\* the clock.
InitMoka ==
    /\ InitCore /\ ~persistence /\ ~event_broadcaster
    /\ moka \in {MokaCache_new(cap, Some(ttl)) : cap \in {None, Some(1)}, ttl \in 1..MaxTime}
    /\ codec = NoCodec /\ conn = NoConn /\ foyer = NoFoyer /\ form = NoForm
NextMoka ==
    \/ \E k \in StoreKeys, v \in Values : moka_put(k, v)
    \/ \E k \in StoreKeys : moka_get(k)
    \/ \E k \in StoreKeys : moka_delete(k)
    \/ \E k \in StoreKeys : moka_evict(k)
    \/ Tick
SpecMoka == InitMoka /\ [][NextMoka]_vars

\* A FoyerCache of each budget under its callers.
InitFoyer ==
    /\ InitCore /\ ~persistence /\ ~event_broadcaster
    /\ foyer \in {FoyerCache_new(b) : b \in Budgets}
    /\ codec = NoCodec /\ conn = NoConn /\ moka = NoMoka /\ form = NoForm
NextFoyer ==
    \/ \E k \in FoyerKeys, v \in Values : foyer_put(k, v)
    \/ \E k \in FoyerKeys : foyer_get(k)
    \/ \E k \in FoyerKeys : foyer_delete(k)
SpecFoyer == InitFoyer /\ [][NextFoyer]_vars

\* The server in memory with no cache yet, and one create-cache request posted.
InitForms ==
    /\ InitCore /\ ~persistence /\ ~event_broadcaster
    /\ form \in {[stage |-> "new", req |-> r] : r \in RequestInputs}
    /\ codec = NoCodec /\ conn = NoConn /\ moka = NoMoka /\ foyer = NoFoyer
NextForms == create_cache_handler
SpecForms == InitForms /\ [][NextForms]_vars

\* The role and user services on the trees of a started server: roles and users are
\* created, changed and deleted, and the server starts again.
InitRoles == Init /\ ~persistence /\ ~event_broadcaster
NextRoles ==
    \/ initialize_default_roles
    \/ \E name \in {"admin", "ops"}, permissions \in PermissionSets :
          create_role(name, permissions)
    \/ \E role_id \in RoleIds, permissions \in PermissionSets :
          update_role(role_id, permissions)
    \/ \E role_id \in RoleIds : delete_role(role_id)
    \/ \E username \in Usernames, password \in NewPasswords, role_ids \in RoleIdLists :
          create_user(username, password, role_ids)
    \/ \E user_id \in UserIds, role_ids \in RoleIdLists : assign_roles(user_id, role_ids)
    \/ \E user_id \in UserIds, old_password \in NewPasswords, new_password \in NewPasswords :
          change_password(user_id, old_password, new_password)
    \/ \E user_id \in UserIds, new_password \in NewPasswords :
          reset_password(user_id, new_password)
    \/ \E user_id \in UserIds, requesting_user_id \in UserIds :
          delete_user(user_id, requesting_user_id)
SpecRoles == InitRoles /\ [][NextRoles]_vars

\* ----------------------------------------------------------------- the registry
\* Is the name registered (an entry of the map carries it)?
Registered(name) == \E e \in cache_registry : e.name = name
\* The names the sled tree holds a record for.
PersistedNames == {n \in Names : db[n] # NoRecord}
RegisteredNames == {e.name : e \in cache_registry}

\* C1: list_caches holds each cache name at most once, whatever create_cache and
\* drop_cache calls were made; and a create_cache whose name is already registered
\* returns created=false and leaves the registry (config and store of the name) and
\* the persisted configs as they were.
C1_RegistryUniqueness ==
    /\ [](\A n \in Names : ListedCount(n) <= 1)
    /\ [][\A c \in ConfigInputs, f \in Faults :
            (create_cache(c, f) /\ Registered(c.name))
            => /\ last' = AdminResponse("create", c.name, "exists")
               /\ cache_registry' = cache_registry
               /\ db' = db]_vars

\* C1 happens: a create_cache of a registered name has returned created=false, the
\* registered config being another one than the one passed.
C1_Witness ==
    /\ last.op = "create"
    /\ last.res = "exists"
    /\ Registered(last.name)
    /\ Cardinality(cache_registry) = 2
    /\ \E e \in cache_registry : e.name = last.name /\ e.config.backend = "OverflowToDisk"

\* C2: with persistence enabled, when the write of the config to the sled store fails
\* (the insert or the flush), create_cache returns an error and the registry is not
\* modified: the name is still unknown to describe_cache, list_caches and
\* get_cache_store.
C2_CreatePersistFailure ==
    [][\A c \in ConfigInputs, f \in Faults \ {"none"} :
            (create_cache(c, f) /\ persistence /\ ~Registered(c.name))
            => /\ last' = AdminResponse("create", c.name, "Err")
               /\ cache_registry' = cache_registry
               /\ ~describe_cache(c.name)'.ok
               /\ get_cache_store(c.name)' = None
               /\ \A cfg \in list_caches' : cfg.name # c.name]_vars

\* C2 happens: a create_cache has returned an error after the record reached the tree
\* (the flush failed), and the name is not registered.
C2_Witness ==
    /\ persistence
    /\ last.op = "create"
    /\ last.res = "Err"
    /\ ~Registered(last.name)
    /\ db[last.name] # NoRecord
    /\ cache_registry # {}

\* C3: a drop_cache(name) that returns dropped=true leaves the name unknown to
\* describe_cache (CacheNotFound(name)), get_cache_store (None) and list_caches, and
\* on this CacheManager the name stays unknown until a create_cache(name) returns
\* created=true; a drop_cache of an unknown name returns dropped=false and changes
\* neither the registry nor the persisted configs.
C3_DropCompleteness ==
    /\ [][\A n \in Names, f \in Faults :
            drop_cache(n, f) =>
               /\ last'.res = "dropped" =>
                     /\ describe_cache(n)' = [ok |-> FALSE, err |-> "CacheNotFound", name |-> n]
                     /\ get_cache_store(n)' = None
                     /\ \A cfg \in list_caches' : cfg.name # n
               /\ ~Registered(n) =>
                     /\ last' = AdminResponse("drop", n, "absent")
                     /\ cache_registry' = cache_registry
                     /\ db' = db]_vars
    /\ [][\A n \in Names :
            (~Registered(n) /\ Registered(n)')
            => \/ last' = AdminResponse("create", n, "created")
               \/ last'.op = "open"]_vars

\* C3 happens: a drop_cache has returned dropped=true while the other cache stays.
C3_Witness ==
    /\ last.op = "drop"
    /\ last.res = "dropped"
    /\ ~Registered(last.name)
    /\ cache_registry # {}

\* C4: with persistence enabled and every create_cache and drop_cache call so far
\* successful, reopening the registry (new_with_persistence) succeeds and list_caches
\* holds the same set of configs, field by field, as just before: every cache created
\* and not dropped is there, and no dropped cache is back.
C4_PersistenceRoundTrip ==
    [][(new_with_persistence /\ mgr = "up" /\ intact)
            => /\ last' = AdminResponse("open", "", "Ok")
               /\ mgr' = "up"
               /\ list_caches' = list_caches]_vars

\* C4 happens: a registry was reopened with two caches, one of them with a disk path
\* and a backend that is not the default, after nothing but successful calls.
C4_Witness ==
    /\ last.op = "open"
    /\ last.res = "Ok"
    /\ intact
    /\ Cardinality(list_caches) = 2
    /\ \E cfg \in list_caches : cfg.backend = "OverflowToDisk" /\ cfg.disk_path # None
    /\ \E cfg \in list_caches : cfg.backend = "TimeBound"

\* C5: with persistence enabled, whenever no create_cache or drop_cache call is
\* running (also after a call that returned an error), the names persisted in the
\* sled store are the names of the registry, so that no reader sees a registry the
\* store does not reflect.
C5_RegistryMirrored ==
    (mgr = "up" /\ persistence) => PersistedNames = RegisteredNames

\* C6: when the sled store holds records that do not deserialize as CacheConfig,
\* new_with_persistence succeeds, installs a cache for every record that does
\* deserialize and skips only the others.
C6_RehydrationSkipsCorrupt ==
    [][new_with_persistence
            => /\ last' = AdminResponse("open", "", "Ok")
               /\ mgr' = "up"
               /\ RegisteredNames' = {n \in PersistedNames : from_slice(db[n])[1] = "Ok"}]_vars

\* --------------------------------------------------------------- the data plane
\* The request of task t returns in this step.
Returns(t) == tasks[t].pc # "idle" /\ tasks'[t].pc = "idle"

\* C7: for an existing cache c and a key k, with no other put or delete of (c,k), no
\* expiry and no eviction of k in between: a get(c,k) after put(c,k,v) returns
\* found=true with v (the latest put); a get(c,k) after delete(c,k) fails with
\* NotFound; and a delete(c,k) after delete(c,k) returns deleted=false.
C7_PutGetDeleteLaw ==
    /\ [](\A t \in Tasks :
            tasks[t].pc # "idle" => get_cache_store(tasks[t].cache) = Some(tasks[t].store))
    /\ [][\A t \in Tasks :
            LET me == tasks[t]
                before == lastMut[me.store][me.key]
            IN /\ get_store(t) =>
                    /\ before \in Values =>
                          last' = Response("get", me.cache, me.key, "Found", before)
                    /\ before = "deleted" =>
                          last' = Response("get", me.cache, me.key, "NotFound", "")
               /\ (delete_store(t) /\ before = "deleted") =>
                    /\ Returns(t)
                    /\ last' = Response("delete", me.cache, me.key, "NotDeleted", "")]_vars

\* C7 happens: a get has returned v2, the value of the second of two puts of the key.
C7_Witness ==
    /\ last.op = "get"
    /\ last.res = "Found"
    /\ last.value = "v2"
    /\ Registered(last.name)
    /\ lastMut[get_cache_store(last.name)[1]][last.key] = "v2"
    /\ Len(events) = 2
    /\ events[1] = [type |-> "Added", cache_name |-> last.name, key |-> last.key]
    /\ events[2] = [type |-> "Updated", cache_name |-> last.name, key |-> last.key]

\* C8 as claimed: with an event broadcaster, a successful put of a key that was absent
\* from the store sends exactly one Added event and a successful put of a key that
\* was present sends exactly one Updated event, with the cache name and the key.
C8_EventByPresence ==
    [][event_broadcaster =>
         \A t \in Tasks :
            put_publish(t) =>
               events' = Append(events,
                                [type |-> IF tasks[t].present THEN "Updated" ELSE "Added",
                                 cache_name |-> tasks[t].cache, key |-> tasks[t].key])]_vars

\* C8 as amended: with an event broadcaster, every successful put sends exactly one
\* event, Added when the put's pre-read of the key failed and Updated when it
\* succeeded; every delete that returns deleted=true sends exactly one Deleted event;
\* a get, a delete that returns deleted=false, a call that returns an error and every
\* other step send nothing; each event carries the cache name and the key of its call.
C8_EventPerMutation ==
    [][event_broadcaster =>
         LET done(op) == {t \in Tasks : Returns(t) /\ tasks[t].op = op}
             sent(t, type) == events' = Append(events, [type |-> type,
                                                         cache_name |-> tasks[t].cache,
                                                         key |-> tasks[t].key])
         IN IF done("put") # {}
            THEN \A t \in done("put") :
                    /\ last' = Response("put", tasks[t].cache, tasks[t].key, "Ok", "")
                    /\ sent(t, IF tasks[t].existed THEN "Updated" ELSE "Added")
            ELSE IF done("delete") # {} /\ last'.res = "Deleted"
            THEN \A t \in done("delete") : sent(t, "Deleted")
            ELSE events' = events]_vars

\* C8 happens: a put of an absent key has sent Added and the delete that removed the
\* key, the call that returned last, has sent Deleted.
C8_Witness ==
    /\ event_broadcaster
    /\ last.op = "delete"
    /\ last.res = "Deleted"
    /\ events = << [type |-> "Added", cache_name |-> last.name, key |-> last.key],
                   [type |-> "Deleted", cache_name |-> last.name, key |-> last.key] >>

\* C9: an event is sent only after its store mutation has returned, and the events of
\* a cache are sent in the order in which their mutations were committed to the
\* store, whatever the interleaving of concurrent puts and deletes: when a task sends
\* its event, no task that committed to the same cache before it is still to send.
C9_EventsInCommitOrder ==
    [][\A t \in Tasks :
         (put_publish(t) \/ delete_publish(t)) => tasks[t].before = {}]_vars

\* C10: a put, get or delete addressed to a cache name that is not in the registry
\* fails with CacheNotFound(name), mutates no store and sends no event.
C10_UnknownCache ==
    [][\A t \in Tasks, c \in Names, k \in Keys :
         LET rejected(op) == /\ last' = Response(op, c, k, "CacheNotFound", "")
                             /\ stores' = stores
                             /\ events' = events
                             /\ tasks' = tasks
         IN ~Registered(c) =>
               /\ \A v \in Values : put_lookup(t, c, k, v) => rejected("put")
               /\ get_lookup(t, c, k) => rejected("get")
               /\ delete_lookup(t, c, k) => rejected("delete")]_vars

\* C10 happens: a put to an unknown name was rejected while another cache holds a
\* value and an event was sent before.
C10_Witness ==
    /\ last.op = "put"
    /\ last.res = "CacheNotFound"
    /\ ~Registered(last.name)
    /\ \E e \in cache_registry : stores[e.store]["k1"] # None
    /\ events # <<>>

\* ------------------------------------------------------------- the event channel
\* The client s polls its stream and the channel still holds the value it is to read.
Reads(s) == recv(s) /\ subs[s].next >= oldest(bus)
\* A task hands its event to broadcaster.send.
Publishes(t) == put_publish(t) \/ delete_publish(t)

\* C11: with several clients subscribed, a client that was never told Lagged receives
\* the events sent after it subscribed one by one in the order they were sent, none
\* twice and none skipped (the k-th it receives is the k-th sent after it subscribed),
\* and has one to receive whenever fewer were received than sent; with no filter
\* each is passed on as the SSE event of its type.
C11_BusDelivery ==
    /\ [](\A s \in Subs :
            (subs[s].on /\ ~subs[s].lagged) =>
               /\ subs[s].since + subs[s].got <= Len(events)
               /\ (subs[s].since + subs[s].got < Len(events)) = ENABLED recv(s))
    /\ [][\A s \in Subs :
            (Reads(s) /\ ~subs[s].lagged) =>
               /\ delivered'.sub = s
               /\ delivered'.kind = "Event"
               /\ delivered'.idx = subs[s].since + subs[s].got + 1
               /\ delivered'.ev = Some(events[delivered'.idx])
               /\ subs[s].filter.cache = {} /\ subs[s].filter.event_type = {} =>
                     delivered'.sse = Some(to_sse_event(events[delivered'.idx]))]_vars

\* C11 happens: two clients, neither ever lagging, have each received the first three
\* events, and the last poll gave the third, a Deleted event.
C11_Witness ==
    /\ \A s \in Subs : subs[s].on /\ ~subs[s].lagged /\ subs[s].since = 0 /\ subs[s].got = 3
    /\ delivered.kind = "Event"
    /\ delivered.idx = 3
    /\ delivered.ev[1].type = "Deleted"

C14_NoSubscribers ==
    /\ [][\A t \in Tasks :
            (Publishes(t) /\ rx_cnt(subs) = 0) =>
               /\ bus' = bus
               /\ Returns(t)
               /\ last'.res = (IF tasks[t].op = "put" THEN "Ok" ELSE "Deleted")
               /\ (stores'[tasks[t].store][tasks[t].key] # None) = (tasks[t].op = "put")
               /\ events' # events]_vars
    /\ [][\A s \in Subs :
            (recv(s) /\ delivered'.kind = "Event") => delivered'.idx > subs[s].since]_vars
    /\ [](\A s \in Subs : subs[s].on => \A i \in 1..Len(bus.buf) :
            (bus.buf[i].idx <= subs[s].since) => oldest(bus) + i - 1 < subs[s].next)

\* C14 happens: the first event was sent with no client and dropped, a client then
\* subscribed, and the first thing it received is the second event.
C14_Witness ==
    /\ delivered.kind = "Event"
    /\ delivered.idx = 2
    /\ bus.pos = 1
    /\ subs[delivered.sub].on
    /\ subs[delivered.sub].since = 1
    /\ subs[delivered.sub].got = 1
\* ---------------------------------------------------------------- sessions: claims
\* Request r returns in this step.
Answers(r) == reqs[r].pc # "idle" /\ reqs'[r].pc = "idle"
\* The sessions an answer returns: a list of them for get_user_sessions, one or none
\* for get_existing_user_session and get_or_create_user_session.
Returned(answer) ==
    IF answer.value = None THEN {}
    ELSE IF answer.op = "get_user_sessions"
    THEN {answer.value[1][i] : i \in DOMAIN answer.value[1]}
    ELSE {answer.value[1]}

\* C15: a session whose expires_at has been reached is valid for no operation:
\* get_session invalidates it and fails with NotFound, session_exists answers false,
\* get_user_sessions, get_existing_user_session and get_or_create_user_session never
\* return it; and a step that touches a session sets last_accessed and leaves
\* expires_at as it was.
C15_SessionExpiry ==
    [][/\ \A r \in Reqs :
            Answers(r) =>
              LET me == reqs[r]
                  found == IF "token" \in DOMAIN me
                           THEN cache_get(sessions, me.token, now) ELSE None
                  expired == found # None /\ is_expired(found[1], now)
              IN /\ me.op = "get_session" /\ me.pc = "gs_inv" =>
                       /\ reply'.status = "NotFound"
                       /\ cache_get(sessions', me.token, now') = None
                 /\ me.op = "get_session" /\ reply'.status = "Ok" =>
                       ~is_expired(me.session, now)
                 /\ me.op = "session_exists" /\ expired => reply'.value = Some(FALSE)
                 /\ me.op \in {"get_user_sessions", "get_existing_user_session",
                               "get_or_create_user_session"} =>
                       \A session \in Returned(reply') : ~is_expired(session, now')
       /\ \A r \in Reqs :
            reqs[r].pc = "gs1" /\ reqs'[r] # reqs[r] =>
              LET found == cache_get(sessions, reqs[r].token, now)
              IN found # None /\ is_expired(found[1], now) => reqs'[r].pc = "gs_inv"
       /\ \A token \in Tokens :
            LET before == cache_get(sessions, token, now)
                after == cache_get(sessions', token, now')
            IN before # None /\ after # None =>
                 /\ after[1].expires_at = before[1].expires_at
                 /\ after[1] # before[1] => after[1].last_accessed = now']_vars
\* get_session has found its session expired, and a touched session is kept.
C15_Witness ==
    /\ \E r \in Reqs : reqs[r].pc = "gs_inv" /\ reqs[r].op = "get_session"
    /\ \E token \in Tokens :
         /\ sessions[token] # None
         /\ sessions[token][1].value.last_accessed > sessions[token][1].value.created_at


\* Token is listed for username in the secondary index; the primary index maps token
\* to a session of username.
InSecondary(username, token) ==
    LET found == cache_get(user_sessions, username, now)
    IN found # None /\ \E i \in DOMAIN vecs[found[1]] : vecs[found[1]][i] = token
InPrimary(username, token) ==
    LET found == cache_get(sessions, token, now)
    IN found # None /\ found[1].user.username = username
Quiet == \A r \in Reqs : reqs[r].pc = "idle"

\* C16: whenever no session operation is in progress, a token is listed for user u in
\* the secondary index if and only if the primary index maps it to a session of u.
C16_IndexConsistency ==
    Quiet => \A u \in Usernames, token \in Tokens :
                InSecondary(u, token) <=> InPrimary(u, token)

\* C17: once delete_session(token) has answered true, the token maps to no session for
\* any operation that starts afterwards (get_session fails, session_exists is false,
\* the token is not reused), also when a get_session or an update_session for the
\* token was under way during the delete.
C17_LogoutFinal ==
    \A token \in loggedOut : Quiet => cache_get(sessions, token, now) = None

C19_BearerPath ==
    [][\A r \in Reqs :
         reqs[r].pc # "idle" /\ reqs[r].op = "bearer" /\ reqs'[r] # reqs[r] =>
           LET me == reqs[r]
               found == cache_get(sessions, me.token, now)
               valid == found # None /\ ~is_expired(found[1], now)
           IN /\ minted' = minted
              /\ ~me.verified /\ me.created = 0
              /\ me.pc = "gs1" =>
                    /\ valid <=> reqs'[r].pc = "gs_touch"
                    /\ valid => reqs'[r].session = found[1]
              /\ me.pc = "gs_touch" =>
                    /\ Answers(r)
                    /\ reply'.status = "200" /\ reply'.handler
                    /\ reply'.user = Some(me.session.user)
              /\ Answers(r) /\ me.pc # "gs_touch" =>
                    reply'.status = "401" /\ ~reply'.handler /\ reply'.user = None
              /\ Answers(r) =>
                    /\ reply'.op = "bearer"
                    /\ reply'.created = 0 /\ ~reply'.verified
                    /\ reply'.token = None /\ reply'.reused = None]_vars
\* A Bearer request has been admitted with its session's user.
C19_Witness ==
    /\ reply.op = "bearer"
    /\ reply.status = "200"
    /\ reply.handler
    /\ reply.user = Some(UserRepo["admin"])

\* C20: a Basic-Auth request that finds no valid session of its username is admitted
\* only if the password verifies against the stored hash: with a wrong password or an
\* unknown user it is answered 401, its handler is not run and no session is created;
\* with the right one exactly one session is created for the user and the response
\* carries its token with X-Session-Reused: false.
C20_BasicSlowPath ==
    [][\A r \in Reqs :
         reqs[r].pc # "idle" /\ reqs[r].op = "basic" /\ reqs'[r] # reqs[r] =>
           LET me == reqs[r]
               verifies == /\ me.username \in DOMAIN UserRepo
                           /\ verify_password(me.password,
                                              UserRepo[me.username].password_hash)
           IN /\ reqs'[r].pc = "auth" => me.pc \in {"sc1", "sc2"}
              /\ reqs'[r].pc = "cs1" => me.pc = "auth"
              /\ me.pc = "auth" /\ verifies =>
                    /\ reqs'[r].pc = "cs1"
                    /\ reqs'[r].user = UserRepo[me.username]
              /\ me.pc = "auth" /\ ~verifies =>
                    /\ Answers(r)
                    /\ reply'.status = "401" /\ ~reply'.handler
                    /\ reply'.token = None /\ reply'.created = 0
                    /\ minted' = minted
                    /\ sessions' = sessions /\ user_sessions' = user_sessions
              /\ me.pc = "cs1" =>
                    /\ minted' = minted + 1
                    /\ reqs'[r].session.user = me.user
                    /\ cache_get(sessions', reqs'[r].session.token, now') =
                          Some(reqs'[r].session)
              /\ me.pc \in {"cs2", "cs3"} => minted' = minted
              /\ Answers(r) /\ me.pc = "cs3" =>
                    /\ reply'.status = "200" /\ reply'.handler
                    /\ reply'.token = Some(me.session.token)
                    /\ reply'.reused = Some(FALSE)
                    /\ reply'.user = Some(me.session.user)
                    /\ reply'.created = 1 /\ reply'.verified]_vars
\* A Basic-Auth request without a session has been admitted after its password was
\* verified, and has created its session.
C20_Witness ==
    /\ reply.op = "basic"
    /\ reply.status = "200"
    /\ reply.reused = Some(FALSE)
    /\ reply.verified
    /\ reply.created = 1
    /\ reply.handler

\* ------------------------------------------------------- the TCP protocol and the edge
\* C21: every non-public operation is guarded by authentication: no put, get or delete
\* reaches the data plane, over HTTP or over TCP, unless the request carried a valid
\* session token or accepted credentials.  Here: whenever the connection has made a
\* data-plane call for a frame, credentials were checked for it.
C21_AuthenticationGuard == conn.executed # "none" => conn.authenticated

\* The fields of a message that are written behind a length prefix.
Fields(x) ==
    CASE x.kind \in {"Put"} -> {x.cache_name, x.key, x.value}
      [] x.kind \in {"Get", "Delete"} -> {x.cache_name, x.key}
      [] x.kind = "Value" -> {x.value}
      [] x.kind = "Error" -> {x.msg}
      [] OTHER -> {}
\* Every field is short enough for its length prefix.
Fits(x) == \A f \in Fields(x) : Len(f) < U32Range

\* C22 as stated: for every request and response, with any cache name, key, value and
\* message, decode(encode(x)) succeeds and equals x.
C22_RoundTripAny == codec.stage = "back" => codec.back = DecOk(codec.x)

\* C22: for every request and response whose cache name, key, value and message are
\* each shorter than 2^32 bytes, decode(encode(x)) succeeds and equals x.
C22_RoundTrip == codec.stage = "back" /\ Fits(codec.x) => codec.back = DecOk(codec.x)

C22_Witness ==
    /\ codec.stage = "back"
    /\ codec.x.kind = "Put"
    /\ Len(codec.x.cache_name) > 0 /\ Len(codec.x.key) > 1 /\ Len(codec.x.value) > 0
    /\ Fits(codec.x)
    /\ codec.back = DecOk(codec.x)

\* C23: a frame whose payload is empty, has an unknown opcode, is truncated or names
\* its cache in bytes that are not UTF-8 is answered with one ERROR response, no
\* cache operation is executed for it, and the connection stays open for the next
\* frames.
C23_MalformedAnswered ==
    [][\A frame \in MalformedFrames :
          process_frame(frame) =>
             /\ conn'.sent = conn.sent + 1
             /\ conn'.reply # None
             /\ conn'.reply[1].kind = "Error"
             /\ conn'.executed = "none"
             /\ stores' = stores
             /\ last' = last
             /\ conn'.open]_vars

\* A GET is answered with the value after a malformed frame on the same connection.
C23_Witness ==
    /\ conn.after_malformed
    /\ conn.open
    /\ conn.frame = "request"
    /\ conn.executed = "Get"
    /\ conn.reply # None
    /\ conn.reply[1].kind = "Value"

\* C24: a frame whose length prefix exceeds the maximum is answered with an ERROR
\* response and the connection stays open.
C24_OversizeAnswered ==
    [][\A frame \in OversizeFrames :
          process_frame(frame) =>
             /\ conn'.sent = conn.sent + 1
             /\ conn'.reply # None
             /\ conn'.reply[1].kind = "Error"
             /\ conn'.open]_vars

\* C25: a GET of a key absent or expired in an existing cache is answered NOT_FOUND, a
\* GET hit VALUE with the stored bytes, and every other failure of PUT, GET or DELETE
\* (an unknown cache) ERROR.
C25_OutcomeMapping ==
    [][\A frame \in RequestFrames :
          process_frame(frame) =>
             LET req == Request_decode(frame).value
             IN req.kind # "Ping" =>
                  LET found == get_cache_store(from_bytes(Names, req.cache_name))
                      key == from_bytes(Keys, req.key)
                  IN IF found = None
                     THEN conn'.reply[1].kind = "Error"
                     ELSE req.kind = "Get" =>
                            IF stores[found[1]][key] = None
                            THEN /\ conn'.reply = Some(Response_NotFound)
                                 /\ Response_encode(conn'.reply[1]) = <<RESP_NOT_FOUND>>
                            ELSE conn'.reply
                                 = Some(Response_Value(as_bytes(stores[found[1]][key][1])))]_vars

\* ------------------------------------------------------- the backends
\* C26 as stated: in a TimeBound store with default TTL T, a key inserted at t and not
\* re-inserted is absent for every get at or after t+T, and found by every get before
\* t+T if it was not deleted.
C26_TtlEvictionAnyStore ==
    [][\A k \in StoreKeys :
          moka_get(k) /\ moka.hist[k] # None =>
             LET h == moka.hist[k][1]
             IN /\ now >= h.at + moka.ttl[1] => moka'.reply[1].res = "NotFound"
                /\ now < h.at + moka.ttl[1] /\ ~h.deleted
                      => moka'.reply[1].res = "Found"]_vars

\* C26: in a TimeBound store with default TTL T, a key inserted at t and not
\* re-inserted is absent for every get at or after t+T, and, in a store built without an
\* entry cap, found by every get before t+T if it was not deleted.
C26_TtlEviction ==
    [][\A k \in StoreKeys :
          moka_get(k) /\ moka.hist[k] # None =>
             LET h == moka.hist[k][1]
             IN /\ now >= h.at + moka.ttl[1] => moka'.reply[1].res = "NotFound"
                /\ now < h.at + moka.ttl[1] /\ ~h.deleted /\ moka.max_capacity = None
                      => moka'.reply[1].res = "Found"]_vars

\* A key put at 0 with a TTL of two ticks was found at 1 and is not found at 2.
C26_Witness ==
    /\ moka.ttl = Some(2)
    /\ now = 2
    /\ \E k \in StoreKeys :
          /\ moka.hist[k] = Some([at |-> 0, deleted |-> FALSE])
          /\ moka.reply = Some([op |-> "get", key |-> k, res |-> "NotFound", value |-> ""])

\* C27: a SizeBounded store built with budget B never holds entries whose aggregate
\* weight, at least key.len() + value.len() each, exceeds B.
C27_SizeBound == bytes_held(foyer.entries, FoyerKeys) <= foyer.capacity

\* C28: a put of an entry heavier than the store can hold even when empty fails with
\* Internal("value too large") and leaves the contents unchanged.
C28_OversizedEntry ==
    [][\A k \in FoyerKeys, v \in Values :
          foyer_put(k, v) /\ Len(as_bytes(k)) + Len(as_bytes(v)) > foyer.capacity =>
             /\ foyer'.reply[1].res = "Internal: value too large"
             /\ foyer'.entries = foyer.entries]_vars

\* ------------------------------------------------------- validation
\* The chars of [A-Za-z0-9_-].
NameClass == {"a", "b", "Z", "7", "_", "-"}

\* C29: a create-cache request whose name is empty or has a char outside
\* [A-Za-z0-9_-] is rejected with HTTP 400 and an error body whose field is "name",
\* and no cache is created or persisted.
C29_NameValidation ==
    /\ form.stage = "done"
    /\ form.req.name = <<>> \/ \E i \in 1..Len(form.req.name) : form.req.name[i] \notin NameClass
    => /\ form.status = "400"
       /\ form.body.field = Some("name")
       /\ cache_registry = {}
       /\ db = [n \in Names |-> NoRecord]

\* The request breaks a required-field or range rule of the backend it names.
Violates(req) ==
    \/ to_lowercase(req.eviction) \in {"size", "storage"} /\ req.mem_bytes = None
    \/ to_lowercase(req.eviction) = "storage" /\ req.disk_path \in {None, Some("")}
    \/ req.mem_bytes # None
       /\ (req.mem_bytes[1] < MIN_MEM_BYTES \/ req.mem_bytes[1] > MAX_MEM_BYTES)
    \/ req.shards # None /\ req.shards[1] > MAX_SHARDS

C31_SystemRolesAndSelfDeletion ==
    [][LET call == auth_db'.result
           system(id) == auth_db.roles[id] # None /\ auth_db.roles[id][1].is_system_role
       IN /\ \A id \in RoleIds : system(id) => auth_db'.roles[id] = auth_db.roles[id]
          /\ (call.op \in {"update_role", "delete_role"} /\ system(call.id[1]))
                => /\ ~call.res.ok
                   /\ auth_db'.roles = auth_db.roles
                   /\ auth_db'.roles_by_name = auth_db.roles_by_name
          /\ (call.op = "delete_user" /\ call.id = call.by)
                => /\ call.res = AuthErr("CannotDeleteSelf")
                   /\ auth_db'.users = auth_db.users
                   /\ auth_db'.users_by_username = auth_db.users_by_username]_vars
\* update_role on the admin role was refused after a custom role was created and
\* deleted and another user was created, and the admin deleted by it.
C31_Witness ==
    /\ auth_db.result.op = "update_role"
    /\ auth_db.result.id = Some(1)
    /\ auth_db.result.res = AuthErr("CannotDeleteSystemRole")
    /\ auth_db.role_uuids = MaxRoles /\ auth_db.roles[MaxRoles] = None
    /\ auth_db.users[1] = None /\ auth_db.users[2] # None


\* ------------------------------------------------------- sessions, one call at a time
\* C32: get_or_create_user_session and get_existing_user_session consider only the
\* unexpired sessions of the given username and return the one with the greatest
\* last_accessed; if the user has no unexpired session, get_or_create_user_session
\* creates a new session with a token different from every expired one, while
\* get_existing_user_session returns None and creates nothing.
C32_SessionSelection ==
    [][\A r \in Reqs :
         LET me == reqs[r]
             valid == {sessions[t][1].value :
                         t \in {k \in Tokens :
                                 LET found == cache_get(sessions, k, now)
                                 IN /\ found # None
                                    /\ ~is_expired(found[1], now)
                                    /\ found[1].user.username = me.username}}
             greatest(session) ==
                 /\ session \in valid
                 /\ \A other \in valid : other.last_accessed <= session.last_accessed
         IN me.pc # "idle" /\ reqs'[r] # me =>
              /\ me.op = "get_existing_user_session" =>
                    /\ minted' = minted
                    /\ sessions' = sessions
                    /\ user_sessions' = user_sessions
                    /\ vecs' = vecs
                    /\ Answers(r) =>
                          IF valid = {} THEN reply'.value = None
                          ELSE reply'.value # None /\ greatest(reply'.value[1])
              /\ me.op = "get_or_create_user_session" =>
                    /\ me.pc \in {"sc1", "sc2"} /\ reqs'[r].pc # "sc2" =>
                          /\ reqs'[r].pc = (IF valid = {} THEN "cs1" ELSE "touch")
                          /\ minted' = minted
                    /\ me.pc = "touch" =>
                          /\ Answers(r)
                          /\ sessions[me.session.token] # None
                          /\ greatest(sessions[me.session.token][1].value)
                          /\ reply'.value =
                                Some(update_last_accessed(
                                       sessions[me.session.token][1].value, now))
                          /\ reply'.created = 0
                    /\ me.pc = "cs1" =>
                          /\ valid = {}
                          /\ \A t \in Tokens :
                                sessions[t] # None => reqs'[r].session.token # t
                          /\ cache_get(sessions', reqs'[r].session.token, now') =
                                Some(reqs'[r].session)
                    /\ me.pc = "cs3" =>
                          /\ Answers(r)
                          /\ reply'.value = Some(me.session)
                          /\ reply'.created = 1]_vars
\* get_existing_user_session has returned, of the user's two unexpired sessions, the
\* one accessed last, which is not the one created last.
C32_Witness ==
    /\ reply.op = "get_existing_user_session"
    /\ reply.value # None
    /\ reply.value[1].token = 1
    /\ \A t \in 1..2 : cache_get(sessions, t, now) # None
                          /\ ~is_expired(sessions[t][1].value, now)
    /\ sessions[1][1].value.last_accessed > sessions[2][1].value.last_accessed

C34_CancellationSafe ==
    /\ Quiet => \A token \in Tokens :
                  InPrimary("admin", token) <=> InSecondary("admin", token)
    /\ \A n \in Names : db[n] # NoRecord => contains_key(cache_registry, n)

\* ------------------------------------------------------- the data plane under races
\* C35: a delete answers deleted=true if and only if the key was present when its
\* remove ran; of several delete calls for the same present key of the same cache that
\* run concurrently (with no concurrent put of that key: the rival's remove is the last
\* thing that happened to the key) exactly one returns deleted=true, and exactly one
\* Deleted event is published.
C35_DeleteDecided ==
    [][\A t \in Tasks :
         LET me == tasks[t]
             rivals == {u \in Tasks \ {t} : /\ tasks[u].pc \in {"delete", "publish"}
                                             /\ tasks[u].op = "delete"
                                             /\ tasks[u].store = me.store
                                             /\ tasks[u].key = me.key}
         IN /\ me.pc = "delete" /\ tasks'[t].pc # "delete" =>
                 LET present == stores[me.store][me.key] # None
                     returns == tasks'[t].pc = "idle"
                     answer == Response("delete", me.cache, me.key,
                                        IF present THEN "Deleted" ELSE "NotDeleted", "")
                 IN /\ events' = events
                    /\ stores'[me.store][me.key] = None
                    /\ returns <=> ~(present /\ event_broadcaster)
                    /\ returns => last' = answer
                    /\ ~returns => tasks'[t].pc = "publish" /\ tasks'[t].op = "delete"
                    /\ \A u \in rivals :
                          /\ tasks'[u].pc = tasks[u].pc
                          /\ tasks[u].pc = "publish"
                             /\ lastMut[me.store][me.key] = "deleted" => ~present
            /\ me.pc = "publish" /\ me.op = "delete" /\ tasks'[t].pc = "idle" =>
                 /\ events' = Append(events, [type |-> "Deleted", cache_name |-> me.cache,
                                              key |-> me.key])
                 /\ last' = Response("delete", me.cache, me.key, "Deleted", "")]_vars
\* Of two deletes of one key under way together, one has been answered deleted=false
\* while the other, which removed the key, has still to send its event.
C35_Witness ==
    /\ last = Response("delete", "a", "k1", "NotDeleted", "")
    /\ tasks["t1"].pc = "publish"
    /\ tasks["t1"].op = "delete"
    /\ tasks["t1"].cache = "a"
    /\ tasks["t2"].pc = "idle"
    /\ events = <<[type |-> "Added", cache_name |-> "a", key |-> "k1"]>>

\* C36: with an event broadcaster, for every interleaving of concurrent successful puts
\* (and deletes) on the same key, each successful put publishes exactly one event,
\* either Added or Updated and never both or none, even when its classification does
\* not match the state of the store at the moment its mutation was committed.
C36_OneEventPerPut ==
    [][event_broadcaster =>
         LET returning == {t \in Tasks : tasks[t].pc # "idle" /\ tasks'[t].pc = "idle"}
             sending == {t \in returning : tasks[t].pc = "publish"}
         IN /\ Len(events') = Len(events) + Cardinality(sending)
            /\ SubSeq(events', 1, Len(events)) = events
            /\ \A t \in Tasks :
                  tasks[t].pc # "idle" /\ tasks[t].op = "put" =>
                    /\ t \in returning =>
                          /\ t \in sending
                          /\ last' = Response("put", tasks[t].cache, tasks[t].key, "Ok", "")
                          /\ \E type \in {"Added", "Updated"} :
                                events' = Append(events, [type |-> type,
                                                          cache_name |-> tasks[t].cache,
                                                          key |-> tasks[t].key])
                    /\ tasks[t].pc = "put" /\ tasks'[t].pc # "put" =>
                          /\ tasks'[t].pc = "publish"
                          /\ stores'[tasks[t].store][tasks[t].key] = Some(tasks[t].val)]_vars
\* Two racing puts of one absent key have both returned: the second wrote over the
\* first one's value, and each has sent one event, both Added.
C36_Witness ==
    /\ event_broadcaster
    /\ events = <<[type |-> "Added", cache_name |-> "a", key |-> "k1"],
                  [type |-> "Added", cache_name |-> "a", key |-> "k1"]>>
    /\ last = Response("put", "a", "k1", "Ok", "")
    /\ \A t \in Tasks : tasks[t].pc = "idle"

\* ------------------------------------------------------- sessions created together
\* C37: when two create_session calls for the same username run concurrently
\* (including when the username has no entry in the secondary index yet), after both
\* have returned both tokens are valid in the primary index and both are listed for
\* the user, so that get_user_sessions returns both sessions.
C37_NoTokenLost ==
    Quiet /\ minted = 2 =>
       /\ \A token \in 1..2 : InPrimary("admin", token) /\ InSecondary("admin", token)
       /\ reply.op = "get_user_sessions" => Len(reply.value[1]) = 2

\* C38: once drop_cache(name) has returned dropped=true, and until the name is created
\* again, no put, get or delete for that name succeeds and no Added, Updated or
\* Deleted event with cache_name = name is published, including for data operations
\* that were already in progress when the drop happened; and a cache re-created under
\* the same name starts empty.
C38_NoActivityAfterDrop ==
    [][/\ ~Registered("a") =>
            /\ events' = events
            /\ \A t \in Tasks :
                  tasks[t].pc # "idle" /\ tasks'[t].pc = "idle" =>
                     last'.res \in {"CacheNotFound", "NotFound", "NotDeleted"}
       /\ \A e \in cache_registry' \ cache_registry : stores'[e.store] = EmptyStore]_vars

\* ------------------------------------------------------- credentials that change
\* C39: after change_password or reset_password for a user, or after the user is
\* deleted, a Basic-Auth request for that username carrying the old password is not
\* admitted to any protected route, even when a session created before the change is
\* still unexpired.
C39_OldCredentialsCutOff ==
    [][\A r \in Reqs :
         LET call == auth_db.result
             changed == /\ call.op \in {"change_password", "reset_password", "delete_user"}
                        /\ call.res.ok
                        /\ call.id = Some(1)
             user == auth_db.users[1]
             old == "password" \in DOMAIN reqs[r]
                    /\ reqs[r].username = "admin"
                    /\ verify_password(reqs[r].password, call.was[1][1].password_hash)
                    /\ (user = None
                        \/ ~verify_password(reqs[r].password, user[1].password_hash))
         IN Answers(r) /\ reqs[r].op = "basic" /\ changed /\ old =>
              reply'.status = "401" /\ ~reply'.handler]_vars

\* C40: on a connection, every frame received within the size limit gets exactly one
\* response, the responses are written in the order the frames were read, the response
\* to a request is written only after its cache operation has returned, and a GET read
\* after a PUT of the same key that was answered OK is answered with the value of that
\* PUT while the PUT is the last thing that happened to the key.
C40_RequestResponsePairing ==
    /\ [](LET inLimit == {i \in 1..Len(conn.got) : Len(conn.got[i]) <= MaxFrameLength}
              under_way == IF conn.open /\ conn.pc # "next" THEN 1 ELSE 0
          IN /\ conn.sent = Len(conn.answered)
             /\ Cardinality(inLimit) = conn.sent + under_way
             /\ \A i \in 1..Len(conn.answered) :
                  LET request == Request_decode(conn.got[i])
                      response == conn.answered[i].response
                  IN /\ conn.answered[i].of = i
                     /\ i \in inLimit
                     /\ IF ~request.ok
                        THEN response.kind = "Error"
                        ELSE CASE request.value.kind = "Ping" -> response = Response_Pong
                               [] request.value.kind = "Put" ->
                                    conn.answered[i].done = i /\ response.kind \in {"Ok", "Error"}
                               [] request.value.kind = "Get" ->
                                    /\ conn.answered[i].done = i
                                    /\ response.kind \in {"Value", "NotFound", "Error"}
                               [] request.value.kind = "Delete" ->
                                    conn.answered[i].done = i /\ response.kind \in {"Ok", "Error"})
    /\ [][cache_ops_await /\ conn.request[1].kind = "Get" =>
            \A i \in 1..Len(conn.answered) :
               LET put == Request_decode(conn.got[i])
                   get == conn.request[1]
                   found == get_cache_store(from_bytes(Names, get.cache_name))
               IN /\ put.ok
                  /\ put.value.kind = "Put"
                  /\ put.value.cache_name = get.cache_name
                  /\ put.value.key = get.key
                  /\ conn.answered[i].response = Response_Ok
                  /\ found # None
                  /\ lastMut[found[1]][from_bytes(Keys, get.key)]
                     = from_bytes(Values, put.value.value)
                  => conn'.response = Some(Response_Value(put.value.value))]_vars

\* A PUT and a GET of its key were written before the PUT was answered; the PUT was
\* answered OK and then the GET with the value put, and a third frame still waits.
C40_Witness ==
    /\ Len(conn.answered) = 2
    /\ conn.socket # <<>>
    /\ Request_decode(conn.got[1]).ok
    /\ Request_decode(conn.got[1]).value.kind = "Put"
    /\ conn.answered[1].response = Response_Ok
    /\ Request_decode(conn.got[2]).ok
    /\ Request_decode(conn.got[2]).value.kind = "Get"
    /\ conn.answered[2].response = Response_Value(Request_decode(conn.got[1]).value.value)

====
